---------------------------- MODULE Spec2Model ----------------------------
(***************************************************************************)
(* A model of the depinkit/did package: the did:key codec (key.go), the    *)
(* anchor resolver (anchor.go) and the BasicTrustContext (context.go).     *)
(*                                                                         *)
(* Strings are sequences of one-character strings, byte slices are         *)
(* sequences of 0..255.                                                    *)
(***************************************************************************)
EXTENDS Integers, Sequences, FiniteSets, TLC

(***************************************************************************)
(* Strings and byte slices                                                 *)
(***************************************************************************)

\* strings.HasPrefix(s, p)
HasPrefix(s, p) ==
    /\ Len(s) >= Len(p)
    /\ \A i \in 1..Len(p) : s[i] = p[i]

\* strings.TrimPrefix(s, p): s without the leading p, s itself when p is no prefix
TrimPrefix(s, p) ==
    IF HasPrefix(s, p) THEN SubSeq(s, Len(p) + 1, Len(s)) ELSE s

\* the position of the k-th separator of s; 0 before the first and
\* Len(s) + 1 after the last
SplitAt(s, sep, k) ==
    LET at == {i \in 1..Len(s) : s[i] = sep}
    IN  IF k = 0 THEN 0
        ELSE IF k > Cardinality(at) THEN Len(s) + 1
        ELSE CHOOSE i \in at : Cardinality({j \in at : j < i}) = k - 1

\* strings.Split(s, sep) for a one-character separator: the parts between
\* the separators, always at least one part
Split(s, sep) ==
    [k \in 1..(Cardinality({i \in 1..Len(s) : s[i] = sep}) + 1) |->
        SubSeq(s, SplitAt(s, sep, k - 1) + 1, SplitAt(s, sep, k) - 1)]

\* DID.Method(): the middle one of exactly three colon-separated parts, else ""
Method(uri) ==
    LET parts == Split(uri, ":")
    IN  IF Len(parts) = 3 THEN parts[2] ELSE <<>>

\* DID.Identifier()
Identifier(uri) ==
    LET parts == Split(uri, ":")
    IN  IF Len(parts) = 3 THEN parts[3] ELSE <<>>

\* whether some element of the sequence parts is the empty string
HasEmptyPart(parts) == \E i \in 1..Len(parts) : parts[i] = <<>>

\* FromString(s): (DID, error)
FromString(str) ==
    IF str # <<>> /\ (Len(Split(str, ":")) = 2 \/ HasEmptyPart(Split(str, ":")))
    THEN [err |-> "ErrInvalidDID", did |-> <<>>]
    ELSE [err |-> "none", did |-> str]

\* strings.Repeat, bytes.Repeat: n copies of x
Repeat(x, n) == [i \in 1..n |-> x]

\* the number of leading elements of s equal to x
LeadingCount(s, x) ==
    IF \A i \in 1..Len(s) : s[i] = x THEN Len(s)
    ELSE (CHOOSE i \in 1..Len(s) : s[i] # x /\ \A j \in 1..(i - 1) : s[j] = x) - 1

(***************************************************************************)
(* go-varint                                                               *)
(***************************************************************************)

\* varint.PutUvarint: little-endian base-128, continuation bit 0x80
RECURSIVE PutUvarint(_)
PutUvarint(t) ==
    IF t < 128 THEN <<t>> ELSE <<(t % 128) + 128>> \o PutUvarint(t \div 128)

RECURSIVE Pow128(_)
Pow128(k) == IF k = 0 THEN 1 ELSE 128 * Pow128(k - 1)

\* A tag that needs more than four varint bytes is no codec of this package;
\* its value is kept as LargeTag, so that the arithmetic stays within 32 bits.
LargeTag == 0 - 1

\* varint.FromUvarint(buf): (value, bytes read, error)
RECURSIVE FromUvarintAt(_, _, _)
FromUvarintAt(buf, i, x) ==
    IF i > Len(buf) THEN [err |-> "ErrUnderflow", value |-> 0, n |-> 0]
    ELSE IF (i = 9 /\ buf[i] >= 128) \/ i > 9
         THEN [err |-> "ErrOverflow", value |-> 0, n |-> 0]
    ELSE IF buf[i] < 128
         THEN IF buf[i] = 0 /\ i > 1
              THEN [err |-> "ErrNotMinimal", value |-> 0, n |-> 0]
              ELSE [err |-> "none",
                    value |-> IF i > 4 \/ x = LargeTag THEN LargeTag
                              ELSE x + buf[i] * Pow128(i - 1),
                    n |-> i]
    ELSE FromUvarintAt(buf, i + 1,
                       IF i > 4 \/ x = LargeTag THEN LargeTag
                       ELSE x + (buf[i] - 128) * Pow128(i - 1))

FromUvarint(buf) == FromUvarintAt(buf, 1, 0)

(***************************************************************************)
(* base58 (mr-tron/base58, Bitcoin alphabet) and go-multibase              *)
(***************************************************************************)

B58Alphabet ==
    << "1", "2", "3", "4", "5", "6", "7", "8", "9",
       "A", "B", "C", "D", "E", "F", "G", "H", "J", "K", "L", "M", "N",
       "P", "Q", "R", "S", "T", "U", "V", "W", "X", "Y", "Z",
       "a", "b", "c", "d", "e", "f", "g", "h", "i", "j", "k", "m",
       "n", "o", "p", "q", "r", "s", "t", "u", "v", "w", "x", "y", "z" >>

B58Base == Len(B58Alphabet)

\* the index (0..57) of a character in the alphabet, -1 when it is not in it
B58Index(c) ==
    IF \E i \in 1..B58Base : B58Alphabet[i] = c
    THEN (CHOOSE i \in 1..B58Base : B58Alphabet[i] = c) - 1
    ELSE 0 - 1

\* big-endian digits without leading zeros
StripZeros(num) == SubSeq(num, LeadingCount(num, 0) + 1, Len(num))

\* long division of a big-endian base-`from` number by `to`: the digits lo
\* to hi, with the remainder r of the digits before them: quotient digits,
\* remainder.  The digits are taken in two halves, the first half first.
RECURSIVE DivMod(_, _, _, _, _, _)
RECURSIVE DivRest(_, _, _, _, _, _)
DivMod(num, from, to, lo, hi, r) ==
    IF lo > hi THEN [q |-> <<>>, r |-> r]
    ELSE IF lo = hi
    THEN [q |-> <<(r * from + num[lo]) \div to>>, r |-> (r * from + num[lo]) % to]
    ELSE DivRest(num, from, to, (lo + hi) \div 2 + 1, hi,
                 DivMod(num, from, to, lo, (lo + hi) \div 2, r))

\* the division goes on at digit lo after the digits that gave `left`
DivRest(num, from, to, lo, hi, left) ==
    LET right == DivMod(num, from, to, lo, hi, left.r)
    IN  [q |-> left.q \o right.q, r |-> right.r]

\* up to k rounds of division by `to`: st.num is the quotient that is left
\* and st.out the remainders so far, the last one first.  The rounds are
\* taken in two halves, and they end when the quotient is zero.
RECURSIVE RoundsOf(_, _, _, _)
RoundsOf(st, from, to, k) ==
    IF st.num = <<>> THEN st
    ELSE IF k <= 1
    THEN LET qr == DivMod(st.num, from, to, 1, Len(st.num), 0)
         IN  [num |-> StripZeros(qr.q), out |-> <<qr.r>> \o st.out]
    ELSE RoundsOf(RoundsOf(st, from, to, k \div 2), from, to, k - k \div 2)

\* the digits of a big-endian base-`from` number in base `to`, most
\* significant first, by repeated division; with from <= to * to a digit
\* of num gives at most two digits
Rounds(num, from, to) ==
    RoundsOf([num |-> num, out |-> <<>>], from, to, 2 * Len(num)).out

\* the digits taken two at a time: the same number in base from * from
Pack(num, from) ==
    LET padded == IF Len(num) % 2 = 1 THEN <<0>> \o num ELSE num
    IN  [i \in 1..(Len(padded) \div 2) |-> padded[2 * i - 1] * from + padded[2 * i]]

\* each digit of base to * to as two digits of base to
Unpack(num, to) ==
    [i \in 1..(2 * Len(num)) |->
        IF i % 2 = 1 THEN num[(i + 1) \div 2] \div to ELSE num[i \div 2] % to]

\* the conversion works on pairs of digits, which halves the divisions
Convert(num, from, to) ==
    StripZeros(Unpack(Rounds(StripZeros(Pack(num, from)), from * from, to * to), to))

\* base58.Encode: one "1" per leading zero byte, then the number in base 58
B58Encode(bin) ==
    LET zc == LeadingCount(bin, 0)
        digits == Convert(StripZeros(bin), 256, B58Base)
    IN  Repeat(B58Alphabet[1], zc) \o [i \in 1..Len(digits) |-> B58Alphabet[digits[i] + 1]]

\* base58.Decode: fails on the empty string and on a character outside the
\* alphabet; one zero byte per leading "1", then the number in base 256
B58Decode(str) ==
    IF str = <<>> THEN [err |-> "zero length string", data |-> <<>>]
    ELSE IF \E i \in 1..Len(str) : B58Index(str[i]) < 0
         THEN [err |-> "invalid base58 digit", data |-> <<>>]
    ELSE LET zc == LeadingCount(str, B58Alphabet[1])
             digits == [i \in 1..Len(str) |-> B58Index(str[i])]
         IN  [err |-> "none",
              data |-> Repeat(0, zc) \o Convert(StripZeros(digits), B58Base, 256)]

\* multibase encoding markers
Base58BTC == "z"

\* the other encodings go-multibase knows, by marker; their payload is not
\* decoded here: ParseKeyURI rejects them whatever it is
OtherBases ==
    {"0", "7", "9", "f", "F", "v", "V", "t", "T", "b", "B", "c", "C", "h",
     "k", "K", "Z", "m", "M", "u", "U"}

\* mb.Encode(mb.Base58BTC, data)
MultibaseEncode(enc, data) ==
    IF enc = Base58BTC
    THEN [err |-> "none", str |-> <<Base58BTC>> \o B58Encode(data)]
    ELSE [err |-> "unsupported encoding", str |-> <<>>]

\* mb.Decode(str): (encoding, data, error)
MultibaseDecode(str) ==
    IF str = <<>>
    THEN [err |-> "cannot decode multibase for zero length string",
          enc |-> "", data |-> <<>>]
    ELSE IF str[1] = Base58BTC
         THEN LET r == B58Decode(Tail(str))
              IN  [err |-> r.err, enc |-> IF r.err = "none" THEN Base58BTC ELSE "",
                   data |-> r.data]
    ELSE IF str[1] \in OtherBases
         THEN [err |-> "none", enc |-> str[1], data |-> <<>>]
    ELSE [err |-> "unsupported encoding", enc |-> "", data |-> <<>>]

(***************************************************************************)
(* Public keys (the crypto.PubKey capability of depinkit/crypto and libp2p)*)
(***************************************************************************)

\* A public key is [type, raw, rawOk]: Type(), the bytes of Raw(), and
\* whether Raw() succeeds (the three real key types never fail).
SupportedKeyTypes == {"Ed25519", "Secp256k1", "Eth"}

\* ed25519.PublicKeySize
Ed25519PublicKeySize == 32

\* secp256k1.PubKeyBytesLenCompressed: a format byte and the 32-byte abscissa
Secp256k1CompressedSize == 33

\* The format bytes of a compressed secp256k1 point (even and odd ordinate)
CompressedFormats == {2, 3}

\* Whether x is the abscissa of a curve point.  The curve equation is not
\* computed: about half of all field elements are abscissas, decided here
\* by the low bit of the sum of the bytes, which is the parity of the
\* number of odd bytes.
OddBytes(b) == Cardinality({i \in 1..Len(b) : b[i] % 2 = 1})

OnCurve(x) == OddBytes(x) % 2 = 0

\* secp256k1.ParsePubKey on a compressed serialization
ValidCompressed(data) ==
    /\ Len(data) = Secp256k1CompressedSize
    /\ data[1] \in CompressedFormats
    /\ OnCurve(Tail(data))

\* secp256k1.PubKeyBytesLenUncompressed: a format byte, abscissa and ordinate
Secp256k1UncompressedSize == 65

\* the format bytes of the 65-byte serializations: uncompressed, and hybrid
\* with an even or an odd ordinate
UncompressedFormat == 4

HybridFormats == {6, 7}

\* The ordinate of the curve point with abscissa x and the given oddness.
\* The square root is not computed: the ordinate is x with its low bit set
\* to the oddness, so that each abscissa has its two ordinates.
Ordinate(x, odd) ==
    [i \in 1..Len(x) |-> IF i = Len(x) THEN x[i] - (x[i] % 2) + odd ELSE x[i]]

\* secp256k1.ParsePubKey on a 65-byte serialization: the point must be on
\* the curve, and a hybrid format byte must tell the oddness of the ordinate
ValidUncompressed(data) ==
    /\ Len(data) = Secp256k1UncompressedSize
    /\ data[1] \in {UncompressedFormat} \cup HybridFormats
    /\ LET x == SubSeq(data, 2, 33)
           y == SubSeq(data, 34, 65)
       IN  /\ OnCurve(x)
           /\ y = Ordinate(x, y[32] % 2)
           /\ data[1] \in HybridFormats => data[1] = 6 + (y[32] % 2)

\* PublicKey.SerializeCompressed() of the point ParsePubKey(data) returns
SerializeCompressed(data) ==
    IF Len(data) = Secp256k1CompressedSize THEN data
    ELSE <<2 + (data[65] % 2)>> \o SubSeq(data, 2, 33)

NoKey == [type |-> "none", raw |-> <<>>, rawOk |-> FALSE]

\* libp2p UnmarshalEd25519PublicKey: exactly 32 bytes, kept as they are
UnmarshalEd25519PublicKey(data) ==
    IF Len(data) = Ed25519PublicKeySize
    THEN [err |-> "none", key |-> [type |-> "Ed25519", raw |-> data, rawOk |-> TRUE]]
    ELSE [err |-> "expect ed25519 public key data size to be 32", key |-> NoKey]

\* libp2p UnmarshalSecp256k1PublicKey: secp256k1.ParsePubKey takes the
\* compressed, the uncompressed and the hybrid serialization of a point;
\* Raw() of the key is the compressed serialization
UnmarshalSecp256k1PublicKey(data) ==
    IF ValidCompressed(data) \/ ValidUncompressed(data)
    THEN [err |-> "none", key |-> [type |-> "Secp256k1", raw |-> SerializeCompressed(data),
                                   rawOk |-> TRUE]]
    ELSE [err |-> "malformed public key", key |-> NoKey]

\* crypto.UnmarshalEthPublicKey: the same point format, key type Eth
UnmarshalEthPublicKey(data) ==
    IF ValidCompressed(data) \/ ValidUncompressed(data)
    THEN [err |-> "none", key |-> [type |-> "Eth", raw |-> SerializeCompressed(data),
                                   rawOk |-> TRUE]]
    ELSE [err |-> "malformed public key", key |-> NoKey]

(***************************************************************************)
(* key.go: the did:key codec                                               *)
(***************************************************************************)

multicodecKindEd25519PubKey == 237

multicodecKindSecp256k1PubKey == 231

multicodecKindEthPubKey == 61185

keyPrefix == <<"d", "i", "d", ":", "k", "e", "y">>

\* the switch of FormatKeyURI on pubk.Type(): the codec tag, -1 for default
CodecOfMutant(type) ==
    CASE type = "Ed25519" -> multicodecKindEd25519PubKey
      [] type = "Secp256k1" -> multicodecKindSecp256k1PubKey
      [] type = "Eth" -> multicodecKindSecp256k1PubKey
      [] OTHER -> 0 - 1

CodecOf(type) ==
    CASE type = "Ed25519" -> multicodecKindEd25519PubKey
      [] type = "Secp256k1" -> multicodecKindSecp256k1PubKey
      [] type = "Eth" -> multicodecKindEthPubKey
      [] OTHER -> 0 - 1

\* a FormatKeyURI that goes on with the bytes of a Raw() that failed
FormatKeyURIMutant(pubk) ==
    IF CodecOf(pubk.type) < 0 THEN <<>>
    ELSE LET data == PutUvarint(CodecOf(pubk.type)) \o pubk.raw
             enc == MultibaseEncode(Base58BTC, data)
         IN  IF enc.err # "none" THEN <<>>
             ELSE keyPrefix \o <<":">> \o enc.str

\* FormatKeyURI(pubk): "" when Raw() fails or the type is not supported
FormatKeyURI(pubk) ==
    IF ~pubk.rawOk THEN <<>>
    ELSE IF CodecOf(pubk.type) < 0 THEN <<>>
    ELSE LET data == PutUvarint(CodecOf(pubk.type)) \o pubk.raw
             enc == MultibaseEncode(Base58BTC, data)
         IN  IF enc.err # "none" THEN <<>>
             ELSE keyPrefix \o <<":">> \o enc.str

\* a ParseKeyURI that reads the payload as base 58 whatever the marker says
ParseKeyURIMutant(uri) ==
    IF ~HasPrefix(uri, keyPrefix)
    THEN [err |-> "decentralized identifier is not a 'key' type", key |-> NoKey]
    ELSE LET rest == TrimPrefix(uri, keyPrefix \o <<":">>)
             dec == IF rest = <<>> THEN MultibaseDecode(rest) ELSE B58Decode(Tail(rest))
         IN  IF dec.err # "none"
             THEN [err |-> "decoding multibase", key |-> NoKey]
             ELSE LET tag == FromUvarint(dec.data)
                      body == SubSeq(dec.data, tag.n + 1, Len(dec.data))
                  IN  IF tag.err # "none" THEN [err |-> tag.err, key |-> NoKey]
                      ELSE CASE tag.value = multicodecKindEd25519PubKey ->
                                    UnmarshalEd25519PublicKey(body)
                             [] tag.value = multicodecKindSecp256k1PubKey ->
                                    UnmarshalSecp256k1PublicKey(body)
                             [] tag.value = multicodecKindEthPubKey ->
                                    UnmarshalEthPublicKey(body)
                             [] OTHER -> [err |-> "ErrInvalidKeyType", key |-> NoKey]

\* a ParseKeyURI that takes a tag it does not know for the Ed25519 tag
ParseKeyURITagMutant(uri) ==
    IF ~HasPrefix(uri, keyPrefix)
    THEN [err |-> "decentralized identifier is not a 'key' type", key |-> NoKey]
    ELSE LET rest == TrimPrefix(uri, keyPrefix \o <<":">>)
             dec == MultibaseDecode(rest)
         IN  IF dec.err # "none"
             THEN [err |-> "decoding multibase", key |-> NoKey]
             ELSE IF dec.enc # Base58BTC
             THEN [err |-> "unexpected multibase encoding", key |-> NoKey]
             ELSE LET tag == FromUvarint(dec.data)
                      body == SubSeq(dec.data, tag.n + 1, Len(dec.data))
                  IN  IF tag.err # "none" THEN [err |-> tag.err, key |-> NoKey]
                      ELSE CASE tag.value = multicodecKindSecp256k1PubKey ->
                                    UnmarshalSecp256k1PublicKey(body)
                             [] tag.value = multicodecKindEthPubKey ->
                                    UnmarshalEthPublicKey(body)
                             [] OTHER -> UnmarshalEd25519PublicKey(body)

\* ParseKeyURI after mb.Decode returned dec: the checks of the decoding and
\* of its encoding, the codec tag and the unmarshalling of the key
ParseDecoded(dec) ==
    IF dec.err # "none"
    THEN [err |-> "decoding multibase", key |-> NoKey]
    ELSE IF dec.enc # Base58BTC
    THEN [err |-> "unexpected multibase encoding", key |-> NoKey]
    ELSE LET tag == FromUvarint(dec.data)
             body == SubSeq(dec.data, tag.n + 1, Len(dec.data))
         IN  IF tag.err # "none" THEN [err |-> tag.err, key |-> NoKey]
             ELSE CASE tag.value = multicodecKindEd25519PubKey ->
                           UnmarshalEd25519PublicKey(body)
                    [] tag.value = multicodecKindSecp256k1PubKey ->
                           UnmarshalSecp256k1PublicKey(body)
                    [] tag.value = multicodecKindEthPubKey ->
                           UnmarshalEthPublicKey(body)
                    [] OTHER -> [err |-> "ErrInvalidKeyType", key |-> NoKey]

\* ParseKeyURI(uri): (key, error)
ParseKeyURI(uri) ==
    IF ~HasPrefix(uri, keyPrefix)
    THEN [err |-> "decentralized identifier is not a 'key' type", key |-> NoKey]
    ELSE ParseDecoded(MultibaseDecode(TrimPrefix(uri, keyPrefix \o <<":">>)))

\* FromPublicKey(pubk): DID{URI: FormatKeyURI(pubk)}
FromPublicKey(pubk) == FormatKeyURI(pubk)

\* PublicKeyFromDID(did): ErrInvalidDID unless the method is "key"; the
\* error of ParseKeyURI is wrapped
PublicKeyFromDID(did) ==
    IF Method(did) # <<"k", "e", "y">>
    THEN [err |-> "ErrInvalidDID", cause |-> "none", key |-> NoKey]
    ELSE LET r == ParseKeyURI(did)
         IN  IF r.err # "none"
             THEN [err |-> "parsing did key identifier", cause |-> r.err, key |-> NoKey]
             ELSE [err |-> "none", cause |-> "none", key |-> r.key]

(***************************************************************************)
(* anchor.go: the anchor resolver                                          *)
(***************************************************************************)

\* anchorMethods after init(): the method "key" with makeKeyAnchor
anchorMethods == [m \in {<<"k", "e", "y">>} |-> "makeKeyAnchor"]

\* makeKeyAnchor(did): NewAnchor(did, pubk) for the key PublicKeyFromDID finds
makeKeyAnchor(did) ==
    LET r == PublicKeyFromDID(did)
    IN  IF r.err # "none" THEN [err |-> r.err, did |-> <<>>, pubk |-> NoKey]
        ELSE [err |-> "none", did |-> did, pubk |-> r.key]

\* The resolvers a method can be registered with: makeKeyAnchor, and the
\* functions a caller injects, one that returns NewAnchor(did, nil) and one
\* that fails.
makeAnchor(f, did) ==
    CASE f = "makeKeyAnchor" -> makeKeyAnchor(did)
      [] f = "verbatim" -> [err |-> "none", did |-> did, pubk |-> NoKey]
      [] OTHER -> [err |-> "custom resolver failed", did |-> <<>>, pubk |-> NoKey]

\* a GetAnchorForDID that falls back on makeKeyAnchor
DispatchMutant(reg, did) ==
    IF Method(did) \notin DOMAIN reg
    THEN makeKeyAnchor(did)
    ELSE makeAnchor(reg[Method(did)], did)

\* GetAnchorForDID(did) with anchorMethods = reg: ErrNoAnchorMethod unless
\* did.Method() is registered, else what the registered resolver returns
Dispatch(reg, did) ==
    IF Method(did) \notin DOMAIN reg
    THEN [err |-> "ErrNoAnchorMethod", did |-> <<>>, pubk |-> NoKey]
    ELSE makeAnchor(reg[Method(did)], did)

\* GetAnchorForDID(did) with anchorMethods as init() left it
GetAnchorForDID(did) == Dispatch(anchorMethods, did)

(***************************************************************************)
(* The bounds of the model                                                 *)
(***************************************************************************)

\* concurrent callers of one Trust Context
NumCallers == 2

\* key DIDs the callers of the Trust Context use, besides one did:web DID
NumKeyDIDs == 1

\* Start calls in one behaviour (each spawns a reclamation loop)
MaxStarts == 2

\* the clock counts hours, from 0 to MaxTime
MaxTime == 2

(***************************************************************************)
(* The DIDs and keys the Trust Context is exercised with                   *)
(***************************************************************************)

Callers == 1..NumCallers

\* DID 0 is did:web:x (no resolver); DID i > 0 is the did:key of an Ed25519
\* key whose bytes are all i
WebDID == 0

MaxDID == IF NumKeyDIDs > NumCallers THEN NumKeyDIDs ELSE NumCallers

AllDIDs == 0..MaxDID

MainDIDs == 0..NumKeyDIDs

\* providers are built from private keys: their DIDs are key DIDs
ProviderDIDs == 1..NumKeyDIDs

SampleKey(i) ==
    [type |-> "Ed25519", raw |-> Repeat(i, Ed25519PublicKeySize), rawOk |-> TRUE]

URI(d) ==
    IF d = WebDID THEN <<"d", "i", "d", ":", "w", "e", "b", ":", "x">>
    ELSE FromPublicKey(SampleKey(d))

\* what the resolver answers for each DID (it is a pure function of the DID)
Resolved == [d \in AllDIDs |-> GetAnchorForDID(URI(d))]

(***************************************************************************)
(* context.go: the state of one BasicTrustContext and of its users         *)
(***************************************************************************)

VARIABLES
    anchors,    \* ctx.anchors: DID -> anchorEntry, NoEntry when the key is absent
    providers,  \* ctx.providers: DID -> Provider, NoProvider when absent
    stop,       \* ctx.stop: the loop whose context it cancels, 0 for nil
    mx,         \* ctx.mx: 0 when free, p held by caller p, -l held by loop l
    now,        \* the clock read by time.Now()
    loops,      \* the gc goroutines spawned so far, in spawn order
    pc,         \* where each caller is in its current call
    op,         \* the operation each caller is in
    arg,        \* its argument
    loc,        \* GetAnchor's local variable anchor
    ret,        \* what the step just taken returned and saw, if a function returned
    nres,       \* resolver invocations of the caller's current call
    script,     \* the calls a scripted caller has still to make
    ckey,       \* codec: the public key under test
    curi,       \* codec: FromPublicKey(ckey)
    cdec,       \* codec: PublicKeyFromDID(curi)
    cpc,        \* codec: the step of the round trip
    registry,   \* the package variable anchorMethods: method -> resolver
    fn,         \* the package function called last, "none" before any call
    inp,        \* its argument
    out         \* what it returned

ctxVars == <<anchors, providers, stop>>

callVars == <<pc, op, arg, loc, nres, script>>

codecVars == <<ckey, curi, cdec, cpc, registry, fn, inp, out>>

vars == <<anchors, providers, stop, mx, now, loops, pc, op, arg, loc, ret, nres,
          script, ckey, curi, cdec, cpc, registry, fn, inp, out>>

\* const anchorEntryTTL = time.Hour, in the unit of the clock
anchorEntryTTL == 1

\* An anchor object is [did, by]: its DID and who allocated it, 0 for an
\* anchor a caller built with NewAnchor, p for the anchor the resolver built
\* during caller p's GetAnchor.
NoAnchor == [did |-> 0 - 1, by |-> 0 - 1]

NoEntry == [anchor |-> NoAnchor, expire |-> 0 - 1]

NoProvider == [did |-> 0 - 1, id |-> 0 - 1]

NoArg == [did |-> 0 - 1, id |-> 0 - 1]

\* What a step reports: who returned from which call with which argument;
\* the result (a set of DIDs, an anchor, a provider, an error and the error
\* it wraps with %w); the number of
\* resolver invocations of the call; for a cache hit the expiry it found; for
\* a sweep (caller -l) the keys it deleted.
NoRet == [caller |-> 0, op |-> "none", arg |-> NoArg, kind |-> "none", dids |-> {},
          anchor |-> NoAnchor, provider |-> NoProvider, err |-> "none",
          cause |-> "none", nres |-> 0, found |-> 0 - 1]

\* errors.Is(err, target) for the error of a report
ErrorIs(r, target) == r.err = target \/ r.cause = target

\* NewTrustContext(): two empty maps, no loop, an unlocked mutex
NewTrustContext ==
    /\ anchors = [d \in AllDIDs |-> NoEntry]
    /\ providers = [d \in AllDIDs |-> NoProvider]
    /\ stop = 0

\* the keys of ctx.anchors / ctx.providers
AnchorKeys(m) == {d \in DOMAIN m : m[d] # NoEntry}

ProviderKeys(m) == {d \in DOMAIN m : m[d] # NoProvider}

\* sync.Mutex: Lock() returns only when no one holds the mutex
MutexFreeMutant(m) == TRUE

MutexFree(m) == m = 0

\* e.expire.Before(now)
ExpiredMutant(e, t) == e.expire <= t

Expired(e, t) == e.expire < t

\* entry, ok := ctx.anchors[did]
LookupHitMutant(m, d, t) == m[d] # NoEntry /\ ~Expired(m[d], t)

LookupHit(m, d, t) == m[d] # NoEntry

\* an insert that keeps the anchor of an entry that is there
UpsertAnchorKeepMutant(m, a, t) ==
    [m EXCEPT ![a.did] = [anchor |-> IF m[a.did] = NoEntry THEN a ELSE m[a.did].anchor,
                          expire |-> t + anchorEntryTTL]]

\* ctx.anchors[anchor.DID()] = &anchorEntry{anchor, time.Now().Add(anchorEntryTTL)}
UpsertAnchorMutant(m, a, t) ==
    [d \in DOMAIN m |-> IF d = a.did
                        THEN [anchor |-> a, expire |-> t + anchorEntryTTL]
                        ELSE NoEntry]

UpsertAnchor(m, a, t) ==
    [m EXCEPT ![a.did] = [anchor |-> a, expire |-> t + anchorEntryTTL]]

\* a hit that puts an anchor of its own in the entry
RefreshEntryMutant(m, d, t) ==
    [m EXCEPT ![d] = [anchor |-> [did |-> d, by |-> 1], expire |-> t + anchorEntryTTL]]

\* entry.expire = time.Now().Add(anchorEntryTTL)
RefreshEntry(m, d, t) == [m EXCEPT ![d].expire = t + anchorEntryTTL]

\* a sweep that deletes nothing
SweepEntriesMutant(m, t) == m

\* a sweep that deletes the entries that expire at t too
SweepEntriesEarlyMutant(m, t) ==
    [d \in DOMAIN m |-> IF m[d] # NoEntry /\ m[d].expire <= t THEN NoEntry ELSE m[d]]

\* the loop of gcAnchorEntries: delete every entry that expired before t
SweepEntries(m, t) ==
    [d \in DOMAIN m |-> IF m[d] # NoEntry /\ Expired(m[d], t) THEN NoEntry ELSE m[d]]

\* A loop is [pc, cancelled, interval]: where the goroutine is, whether its
\* context is cancelled, and the interval of its ticker.
LoopIds == 1..Len(loops)

Live(l) == loops[l].pc # "returned"

\* the criticial sections: who is between Lock() and the deferred Unlock()
CallersInCS == {p \in Callers : pc[p] \in {"cs", "cs2"}}

LoopsInCS == {l \in LoopIds : loops[l].pc = "gc_cs"}

(***************************************************************************)
(* The callers: each call is a step that takes the mutex and a step for    *)
(* the critical section, whose deferred Unlock runs as it returns.         *)
(***************************************************************************)

\* the ticker intervals Start is called with
PositiveIntervals == {1}

\* the calls a caller can make
Calls ==
    [op : {"Anchors", "Providers", "Stop"}, arg : {NoArg}]
    \cup [op : {"GetAnchor", "GetProvider", "AddAnchor"},
          arg : [did : MainDIDs, id : {0}]]
    \cup [op : {"AddProvider"}, arg : [did : ProviderDIDs, id : {0}]]
    \cup [op : {"Start"}, arg : [did : {0 - 1}, id : PositiveIntervals]]

\* the index of the DID of the anchor the resolver returns for DID d
ResolvedDID ==
    [d \in AllDIDs |->
        IF Resolved[d].err # "none" THEN 0 - 1
        ELSE CHOOSE e \in AllDIDs : URI(e) = Resolved[d].did]

\* the report of a call of caller p, to be filled with its result
Result(p) == [NoRet EXCEPT !.nres = nres[p]]

\* the call of caller p returns r
Returns(p, r) ==
    /\ pc' = [pc EXCEPT ![p] = "idle"]
    /\ op' = [op EXCEPT ![p] = "none"]
    /\ arg' = [arg EXCEPT ![p] = NoArg]
    /\ loc' = [loc EXCEPT ![p] = NoAnchor]
    /\ nres' = [nres EXCEPT ![p] = 0]
    /\ ret' = [r EXCEPT !.caller = p, !.op = op[p], !.arg = arg[p]]
    /\ UNCHANGED script

\* a step in which no call returns
NoReturn == ret' = NoRet

\* the call of caller p goes on at label l
Goto(p, l) ==
    /\ pc' = [pc EXCEPT ![p] = l]
    /\ ret' = NoRet
    /\ UNCHANGED <<op, arg, script>>

\* A caller enters one of the public operations and takes the mutex.  Until
\* its Lock() returns the call has read and written nothing, so entering and
\* locking are one step: the call begins when it gets the mutex.
CallOf(p, calls) ==
    /\ pc[p] = "idle"
    /\ MutexFree(mx)
    /\ \E c \in calls :
        /\ c.op = "Start" => Len(loops) < MaxStarts
        /\ op' = [op EXCEPT ![p] = c.op]
        /\ arg' = [arg EXCEPT ![p] = c.arg]
    /\ mx' = p
    /\ pc' = [pc EXCEPT ![p] = "cs"]
    /\ ret' = NoRet
    /\ UNCHANGED <<ctxVars, now, loops, loc, nres, script, codecVars>>

Call(p) == CallOf(p, Calls)

\* ctx.mx.Lock() of the AddAnchor that GetAnchor calls after the resolver
Lock(p) ==
    /\ pc[p] = "lock2"
    /\ MutexFree(mx)
    /\ mx' = p
    /\ Goto(p, "cs2")
    /\ UNCHANGED <<ctxVars, now, loops, loc, nres, script, codecVars>>

\* an Anchors() that leaves the expired entries out
AnchorsMutant(p) ==
    /\ pc[p] = "cs" /\ op[p] = "Anchors"
    /\ Returns(p, [Result(p) EXCEPT !.kind = "dids",
                                    !.dids = {d \in AnchorKeys(anchors) :
                                                 ~Expired(anchors[d], now)}])
    /\ mx' = 0
    /\ UNCHANGED <<ctxVars, now, loops, codecVars>>

\* Anchors(): the keys of ctx.anchors
Anchors(p) ==
    /\ pc[p] = "cs" /\ op[p] = "Anchors"
    /\ Returns(p, [Result(p) EXCEPT !.kind = "dids", !.dids = AnchorKeys(anchors)])
    /\ mx' = 0
    /\ UNCHANGED <<ctxVars, now, loops, codecVars>>

\* Providers(): the keys of ctx.providers
Providers(p) ==
    /\ pc[p] = "cs" /\ op[p] = "Providers"
    /\ Returns(p, [Result(p) EXCEPT !.kind = "dids", !.dids = ProviderKeys(providers)])
    /\ mx' = 0
    /\ UNCHANGED <<ctxVars, now, loops, codecVars>>

\* a GetAnchor that keeps the mutex while it goes to the resolver
getAnchorMutant(p) ==
    /\ pc[p] = "cs" /\ op[p] = "GetAnchor"
    /\ IF LookupHit(anchors, arg[p].did, now)
       THEN /\ anchors' = RefreshEntry(anchors, arg[p].did, now)
            /\ Returns(p, [Result(p) EXCEPT !.kind = "anchor",
                                        !.anchor = anchors[arg[p].did].anchor,
                                        !.found = anchors[arg[p].did].expire])
            /\ mx' = 0
       ELSE /\ Goto(p, "resolve")
            /\ UNCHANGED <<anchors, loc, nres, mx>>
    /\ UNCHANGED <<providers, stop, now, loops, codecVars>>

\* getAnchor(did), the first critical section of GetAnchor: on a hit the
\* expiry is refreshed and GetAnchor returns the stored anchor; on a miss
\* GetAnchor goes on to the resolver
getAnchor(p) ==
    /\ pc[p] = "cs" /\ op[p] = "GetAnchor"
    /\ IF LookupHit(anchors, arg[p].did, now)
       THEN /\ anchors' = RefreshEntry(anchors, arg[p].did, now)
            /\ Returns(p, [Result(p) EXCEPT !.kind = "anchor",
                                        !.anchor = anchors[arg[p].did].anchor,
                                        !.found = anchors[arg[p].did].expire])
       ELSE /\ Goto(p, "resolve")
            /\ UNCHANGED <<anchors, loc, nres>>
    /\ mx' = 0
    /\ UNCHANGED <<providers, stop, now, loops, codecVars>>

\* a GetAnchor that calls the resolver a second time when it fails
ResolveMutant(p) ==
    /\ pc[p] = "resolve"
    /\ IF Resolved[arg[p].did].err # "none"
       THEN IF nres[p] = 0
            THEN /\ nres' = [nres EXCEPT ![p] = 1]
                 /\ Goto(p, "resolve")
                 /\ UNCHANGED loc
            ELSE Returns(p, [NoRet EXCEPT !.kind = "error",
                                          !.err = "get anchor for did",
                                          !.cause = Resolved[arg[p].did].err,
                                          !.nres = nres[p] + 1])
       ELSE /\ loc' = [loc EXCEPT ![p] = [did |-> ResolvedDID[arg[p].did], by |-> p]]
            /\ nres' = [nres EXCEPT ![p] = nres[p] + 1]
            /\ Goto(p, "lock2")
    /\ UNCHANGED <<ctxVars, mx, now, loops, codecVars>>

\* GetAnchor after a miss: GetAnchorForDID(did), outside the mutex; its error
\* is returned wrapped ("get anchor for did: %w"), its anchor goes to
\* ctx.AddAnchor
Resolve(p) ==
    /\ pc[p] = "resolve"
    /\ IF Resolved[arg[p].did].err # "none"
       THEN Returns(p, [NoRet EXCEPT !.kind = "error",
                                     !.err = "get anchor for did",
                                     !.cause = Resolved[arg[p].did].err,
                                     !.nres = nres[p] + 1])
       ELSE /\ loc' = [loc EXCEPT ![p] = [did |-> ResolvedDID[arg[p].did], by |-> p]]
            /\ nres' = [nres EXCEPT ![p] = nres[p] + 1]
            /\ Goto(p, "lock2")
    /\ UNCHANGED <<ctxVars, mx, now, loops, codecVars>>

\* the anchor AddAnchor is called with: the caller's, or GetAnchor's local
AddedAnchor(p) ==
    IF op[p] = "GetAnchor" THEN loc[p] ELSE [did |-> arg[p].did, by |-> 0]

\* AddAnchor(anchor), called by a caller or as the last step of GetAnchor
AddAnchor(p) ==
    /\ \/ pc[p] = "cs" /\ op[p] = "AddAnchor"
       \/ pc[p] = "cs2" /\ op[p] = "GetAnchor"
    /\ anchors' = UpsertAnchor(anchors, AddedAnchor(p), now)
    /\ Returns(p, IF op[p] = "GetAnchor"
                  THEN [Result(p) EXCEPT !.kind = "anchor", !.anchor = loc[p]]
                  ELSE [Result(p) EXCEPT !.kind = "ok"])
    /\ mx' = 0
    /\ UNCHANGED <<providers, stop, now, loops, codecVars>>

\* a GetProvider that makes and stores a provider when there is none
GetProviderMutant(p) ==
    /\ pc[p] = "cs" /\ op[p] = "GetProvider"
    /\ providers' = IF providers[arg[p].did] = NoProvider
                    THEN [providers EXCEPT ![arg[p].did] = [did |-> arg[p].did, id |-> 0]]
                    ELSE providers
    /\ Returns(p, [Result(p) EXCEPT !.kind = "provider",
                                    !.provider = providers'[arg[p].did]])
    /\ mx' = 0
    /\ UNCHANGED <<anchors, stop, now, loops, codecVars>>

\* GetProvider(did)
GetProvider(p) ==
    /\ pc[p] = "cs" /\ op[p] = "GetProvider"
    /\ Returns(p, IF providers[arg[p].did] = NoProvider
                  THEN [Result(p) EXCEPT !.kind = "error", !.err = "ErrNoProvider"]
                  ELSE [Result(p) EXCEPT !.kind = "provider",
                                     !.provider = providers[arg[p].did]])
    /\ mx' = 0
    /\ UNCHANGED <<ctxVars, now, loops, codecVars>>

\* an AddProvider that stores every provider under the same key
AddProviderMutant(p) ==
    /\ pc[p] = "cs" /\ op[p] = "AddProvider"
    /\ providers' = [providers EXCEPT ![WebDID] = arg[p]]
    /\ Returns(p, [Result(p) EXCEPT !.kind = "ok"])
    /\ mx' = 0
    /\ UNCHANGED <<anchors, stop, now, loops, codecVars>>

\* AddProvider(provider)
AddProvider(p) ==
    /\ pc[p] = "cs" /\ op[p] = "AddProvider"
    /\ providers' = [providers EXCEPT ![arg[p].did] = arg[p]]
    /\ Returns(p, [Result(p) EXCEPT !.kind = "ok"])
    /\ mx' = 0
    /\ UNCHANGED <<anchors, stop, now, loops, codecVars>>

\* ctx.stop(): cancel the context of loop l (nothing for the nil handle)
Cancel(ls, l) == IF l = 0 THEN ls ELSE [ls EXCEPT ![l].cancelled = TRUE]

\* Start that forgets to cancel the loop it replaces
StartMutant(p) ==
    /\ pc[p] = "cs" /\ op[p] = "Start"
    /\ loops' = Append(loops, [pc |-> "start", cancelled |-> FALSE,
                               interval |-> arg[p].id])
    /\ stop' = Len(loops) + 1
    /\ Returns(p, [Result(p) EXCEPT !.kind = "ok"])
    /\ mx' = 0
    /\ UNCHANGED <<anchors, providers, now, codecVars>>

\* Start(gcInterval): cancel the loop of ctx.stop if there is one, then spawn
\* a new loop and keep its cancel function
Start(p) ==
    /\ pc[p] = "cs" /\ op[p] = "Start"
    /\ loops' = Append(Cancel(loops, stop),
                       [pc |-> "start", cancelled |-> FALSE, interval |-> arg[p].id])
    /\ stop' = Len(loops) + 1
    /\ Returns(p, [Result(p) EXCEPT !.kind = "ok"])
    /\ mx' = 0
    /\ UNCHANGED <<anchors, providers, now, codecVars>>

\* Stop that cancels the loop and keeps the handle
StopMutant(p) ==
    /\ pc[p] = "cs" /\ op[p] = "Stop"
    /\ loops' = Cancel(loops, stop)
    /\ stop' = stop
    /\ Returns(p, [Result(p) EXCEPT !.kind = "ok"])
    /\ mx' = 0
    /\ UNCHANGED <<anchors, providers, now, codecVars>>

\* Stop(): cancel the loop of ctx.stop if there is one and forget it
Stop(p) ==
    /\ pc[p] = "cs" /\ op[p] = "Stop"
    /\ loops' = Cancel(loops, stop)
    /\ stop' = 0
    /\ Returns(p, [Result(p) EXCEPT !.kind = "ok"])
    /\ mx' = 0
    /\ UNCHANGED <<anchors, providers, now, codecVars>>

(***************************************************************************)
(* The reclamation loops: gc and gcAnchorEntries                           *)
(***************************************************************************)

\* time.NewTicker(gcInterval) panics unless the interval is positive
gcNewTicker(l) ==
    /\ l \in LoopIds
    /\ loops[l].pc = "start"
    /\ loops' = [loops EXCEPT ![l].pc = IF loops[l].interval > 0
                                        THEN "select" ELSE "panic"]
    /\ NoReturn
    /\ UNCHANGED <<ctxVars, mx, now, callVars, codecVars>>

\* a loop that goes on ticking after it has returned
gcTickMutant(l) ==
    /\ l \in LoopIds
    /\ loops[l].pc \in {"select", "returned"}
    /\ loops' = [loops EXCEPT ![l].pc = "gc_lock"]
    /\ NoReturn
    /\ UNCHANGED <<ctxVars, mx, now, callVars, codecVars>>

\* select takes case <-ticker.C: the loop calls gcAnchorEntries
gcTick(l) ==
    /\ l \in LoopIds
    /\ loops[l].pc = "select"
    /\ loops' = [loops EXCEPT ![l].pc = "gc_lock"]
    /\ NoReturn
    /\ UNCHANGED <<ctxVars, mx, now, callVars, codecVars>>

\* a loop whose select has no case for gcCtx.Done()
gcDoneMutant(l) ==
    /\ l \in LoopIds
    /\ loops[l].pc = "select"
    /\ loops[l].cancelled
    /\ loops' = [loops EXCEPT ![l].pc = "select"]
    /\ NoReturn
    /\ UNCHANGED <<ctxVars, mx, now, callVars, codecVars>>

\* select takes case <-gcCtx.Done(): the loop returns
gcDone(l) ==
    /\ l \in LoopIds
    /\ loops[l].pc = "select"
    /\ loops[l].cancelled
    /\ loops' = [loops EXCEPT ![l].pc = "returned"]
    /\ NoReturn
    /\ UNCHANGED <<ctxVars, mx, now, callVars, codecVars>>

\* ctx.mx.Lock() of gcAnchorEntries
gcLock(l) ==
    /\ l \in LoopIds
    /\ loops[l].pc = "gc_lock"
    /\ MutexFree(mx)
    /\ mx' = 0 - l
    /\ loops' = [loops EXCEPT ![l].pc = "gc_cs"]
    /\ NoReturn
    /\ UNCHANGED <<ctxVars, now, callVars, codecVars>>

\* a sweep that treats the providers like the anchors
gcAnchorEntriesMutant(l) ==
    /\ l \in LoopIds
    /\ loops[l].pc = "gc_cs"
    /\ anchors' = SweepEntries(anchors, now)
    /\ providers' = [d \in DOMAIN providers |-> NoProvider]
    /\ mx' = 0
    /\ loops' = [loops EXCEPT ![l].pc = "select"]
    /\ ret' = [NoRet EXCEPT !.caller = 0 - l, !.op = "gcAnchorEntries", !.kind = "ok",
                            !.dids = AnchorKeys(anchors) \ AnchorKeys(anchors')]
    /\ UNCHANGED <<stop, now, callVars, codecVars>>

\* a sweep that returns without its Unlock
gcAnchorEntriesHoldMutant(l) ==
    /\ l \in LoopIds
    /\ loops[l].pc = "gc_cs"
    /\ anchors' = SweepEntries(anchors, now)
    /\ mx' = mx
    /\ loops' = [loops EXCEPT ![l].pc = "select"]
    /\ ret' = [NoRet EXCEPT !.caller = 0 - l, !.op = "gcAnchorEntries", !.kind = "ok",
                            !.dids = AnchorKeys(anchors) \ AnchorKeys(anchors')]
    /\ UNCHANGED <<providers, stop, now, callVars, codecVars>>

\* gcAnchorEntries(): one sweep at the time it reads
gcAnchorEntries(l) ==
    /\ l \in LoopIds
    /\ loops[l].pc = "gc_cs"
    /\ anchors' = SweepEntries(anchors, now)
    /\ mx' = 0
    /\ loops' = [loops EXCEPT ![l].pc = "select"]
    /\ ret' = [NoRet EXCEPT !.caller = 0 - l, !.op = "gcAnchorEntries", !.kind = "ok",
                            !.dids = AnchorKeys(anchors) \ AnchorKeys(anchors')]
    /\ UNCHANGED <<providers, stop, now, callVars, codecVars>>

\* time passes
Tick ==
    /\ now < MaxTime
    /\ now' = now + 1
    /\ NoReturn
    /\ UNCHANGED <<ctxVars, mx, loops, callVars, codecVars>>

(***************************************************************************)
(* The specification of the Trust Context                                  *)
(***************************************************************************)

\* no package function has been called; anchorMethods is as init() left it
FuncIdle ==
    /\ registry = anchorMethods
    /\ fn = "none"
    /\ inp = <<>>
    /\ out = <<>>

CodecIdle ==
    /\ ckey = NoKey
    /\ curi = <<>>
    /\ cdec = [err |-> "none", cause |-> "none", key |-> NoKey]
    /\ cpc = "off"
    /\ FuncIdle

CallersIdle ==
    /\ pc = [p \in Callers |-> "idle"]
    /\ op = [p \in Callers |-> "none"]
    /\ arg = [p \in Callers |-> NoArg]
    /\ loc = [p \in Callers |-> NoAnchor]
    /\ nres = [p \in Callers |-> 0]
    /\ script = [p \in Callers |-> <<>>]
    /\ ret = NoRet

Init ==
    /\ NewTrustContext
    /\ mx = 0
    /\ now = 0
    /\ loops = <<>>
    /\ CallersIdle
    /\ CodecIdle

Next ==
    \/ \E p \in Callers : Call(p)
    \/ \E p \in Callers : Lock(p)
    \/ \E p \in Callers : Anchors(p)
    \/ \E p \in Callers : Providers(p)
    \/ \E p \in Callers : getAnchor(p)
    \/ \E p \in Callers : Resolve(p)
    \/ \E p \in Callers : AddAnchor(p)
    \/ \E p \in Callers : GetProvider(p)
    \/ \E p \in Callers : AddProvider(p)
    \/ \E p \in Callers : Start(p)
    \/ \E p \in Callers : Stop(p)
    \/ \E l \in LoopIds : gcNewTicker(l)
    \/ \E l \in LoopIds : gcTick(l)
    \/ \E l \in LoopIds : gcDone(l)
    \/ \E l \in LoopIds : gcLock(l)
    \/ \E l \in LoopIds : gcAnchorEntries(l)
    \/ Tick

Spec == Init /\ [][Next]_vars

(***************************************************************************)
(* The Trust Context under fair scheduling.  The callers use one key DID   *)
(* and the operations that touch the anchors and the loops.                *)
(***************************************************************************)

FairCalls ==
    [op : {"Stop"}, arg : {NoArg}]
    \cup [op : {"GetAnchor", "AddAnchor"}, arg : [did : ProviderDIDs, id : {0}]]
    \cup [op : {"Start"}, arg : [did : {0 - 1}, id : PositiveIntervals]]

FairCall(p) == CallOf(p, FairCalls)

FairNext ==
    \/ \E p \in Callers : FairCall(p)
    \/ \E p \in Callers : Lock(p)
    \/ \E p \in Callers : getAnchor(p)
    \/ \E p \in Callers : Resolve(p)
    \/ \E p \in Callers : AddAnchor(p)
    \/ \E p \in Callers : Start(p)
    \/ \E p \in Callers : Stop(p)
    \/ \E l \in LoopIds : gcNewTicker(l)
    \/ \E l \in LoopIds : gcTick(l)
    \/ \E l \in LoopIds : gcDone(l)
    \/ \E l \in LoopIds : gcLock(l)
    \/ \E l \in LoopIds : gcAnchorEntries(l)
    \/ Tick

\* the critical section of caller p, up to its deferred Unlock
CriticalSection(p) ==
    getAnchor(p) \/ AddAnchor(p) \/ Start(p) \/ Stop(p)

\* A goroutine that holds the mutex runs on to its Unlock; a running loop
\* reaches its select, and its ticker keeps firing; a goroutine blocked in
\* Lock() gets the mutex if it is free again and again (sync.Mutex hands a
\* starving waiter the mutex); select chooses at random among the ready
\* cases, so a cancelled loop sooner or later takes Done.
Fairness ==
    /\ \A p \in Callers : WF_vars(CriticalSection(p))
    /\ \A l \in 1..MaxStarts :
        /\ WF_vars(gcNewTicker(l))
        /\ WF_vars(gcTick(l))
        /\ SF_vars(gcDone(l))
        /\ SF_vars(gcLock(l))
        /\ WF_vars(gcAnchorEntries(l))

FairSpec == Init /\ [][FairNext]_vars /\ Fairness

(***************************************************************************)
(* All the public operations under fair scheduling.  The first caller     *)
(* reads and fills the maps, with one key DID and with did:web:x for the   *)
(* GetAnchor that fails; the others start and stop the loop and look the   *)
(* key's anchor up.  The clock stands still, as no operation waits for it. *)
(***************************************************************************)

LiveCalls(p) ==
    IF p = 1
    THEN [op : {"Anchors", "Providers"}, arg : {NoArg}]
         \cup [op : {"GetAnchor"}, arg : [did : MainDIDs, id : {0}]]
         \cup [op : {"GetProvider", "AddAnchor", "AddProvider"},
               arg : [did : ProviderDIDs, id : {0}]]
    ELSE [op : {"Stop"}, arg : {NoArg}]
         \cup [op : {"GetAnchor"}, arg : [did : ProviderDIDs, id : {0}]]
         \cup [op : {"Start"}, arg : [did : {0 - 1}, id : PositiveIntervals]]

LiveCall(p) == CallOf(p, LiveCalls(p))

LiveNext ==
    \/ \E p \in Callers : LiveCall(p)
    \/ \E p \in Callers : Lock(p)
    \/ \E p \in Callers : Anchors(p)
    \/ \E p \in Callers : Providers(p)
    \/ \E p \in Callers : getAnchor(p)
    \/ \E p \in Callers : Resolve(p)
    \/ \E p \in Callers : AddAnchor(p)
    \/ \E p \in Callers : GetProvider(p)
    \/ \E p \in Callers : AddProvider(p)
    \/ \E p \in Callers : Start(p)
    \/ \E p \in Callers : Stop(p)
    \/ \E l \in LoopIds : gcNewTicker(l)
    \/ \E l \in LoopIds : gcTick(l)
    \/ \E l \in LoopIds : gcDone(l)
    \/ \E l \in LoopIds : gcLock(l)
    \/ \E l \in LoopIds : gcAnchorEntries(l)

\* the critical sections of the operations that read
ReadSection(p) ==
    Anchors(p) \/ Providers(p) \/ GetProvider(p) \/ AddProvider(p)

\* Beside the fairness of FairSpec: the resolver returns, and the caller
\* that waits in the Lock() of GetAnchor's insert gets the mutex if it is
\* free again and again.
LiveFairness ==
    /\ Fairness
    /\ \A p \in Callers :
        /\ WF_vars(ReadSection(p))
        /\ WF_vars(Resolve(p))
        /\ SF_vars(Lock(p))

LiveSpec == Init /\ [][LiveNext]_vars /\ LiveFairness

(***************************************************************************)
(* Start with any interval: the callers start the loop with a negative, a  *)
(* zero and a positive interval, stop it and add an anchor.  A goroutine   *)
(* that panics ends the process; the model leaves the loop in "panic".     *)
(***************************************************************************)

Intervals == {0 - 1, 0, 1}

IntervalCalls ==
    [op : {"Stop"}, arg : {NoArg}]
    \cup [op : {"AddAnchor"}, arg : [did : ProviderDIDs, id : {0}]]
    \cup [op : {"Start"}, arg : [did : {0 - 1}, id : Intervals]]

IntervalCall(p) == CallOf(p, IntervalCalls)

IntervalNext ==
    \/ \E p \in Callers : IntervalCall(p)
    \/ \E p \in Callers : AddAnchor(p)
    \/ \E p \in Callers : Start(p)
    \/ \E p \in Callers : Stop(p)
    \/ \E l \in LoopIds : gcNewTicker(l)
    \/ \E l \in LoopIds : gcTick(l)
    \/ \E l \in LoopIds : gcDone(l)
    \/ \E l \in LoopIds : gcLock(l)
    \/ \E l \in LoopIds : gcAnchorEntries(l)
    \/ Tick

IntervalSpec == Init /\ [][IntervalNext]_vars

(***************************************************************************)
(* The concurrent-access scenario: every caller adds the anchor of its own *)
(* DID and reads Anchors() and Providers(); the first caller then waits    *)
(* for the others and reads Anchors().                                     *)
(***************************************************************************)

ScriptOf(p) ==
    << [op |-> "AddAnchor", arg |-> [did |-> p, id |-> 0]],
       [op |-> "Anchors", arg |-> NoArg],
       [op |-> "Providers", arg |-> NoArg] >>
    \o IF p = 1 THEN << [op |-> "Wait", arg |-> NoArg], [op |-> "Anchors", arg |-> NoArg] >>
       ELSE <<>>

ConcInit ==
    /\ NewTrustContext
    /\ mx = 0
    /\ now = 0
    /\ loops = <<>>
    /\ pc = [p \in Callers |-> "idle"]
    /\ op = [p \in Callers |-> "none"]
    /\ arg = [p \in Callers |-> NoArg]
    /\ loc = [p \in Callers |-> NoAnchor]
    /\ nres = [p \in Callers |-> 0]
    /\ script = [p \in Callers |-> ScriptOf(p)]
    /\ ret = NoRet
    /\ CodecIdle

\* the next call of the caller's script
ScriptedCall(p) ==
    /\ pc[p] = "idle"
    /\ script[p] # <<>>
    /\ Head(script[p]).op # "Wait"
    /\ MutexFree(mx)
    /\ op' = [op EXCEPT ![p] = Head(script[p]).op]
    /\ arg' = [arg EXCEPT ![p] = Head(script[p]).arg]
    /\ script' = [script EXCEPT ![p] = Tail(script[p])]
    /\ mx' = p
    /\ pc' = [pc EXCEPT ![p] = "cs"]
    /\ ret' = NoRet
    /\ UNCHANGED <<ctxVars, now, loops, loc, nres, codecVars>>

\* wg.Wait(): every other caller has finished
Wait(p) ==
    /\ pc[p] = "idle"
    /\ script[p] # <<>>
    /\ Head(script[p]).op = "Wait"
    /\ \A q \in Callers \ {p} : pc[q] = "idle" /\ script[q] = <<>>
    /\ script' = [script EXCEPT ![p] = Tail(script[p])]
    /\ ret' = NoRet
    /\ UNCHANGED <<ctxVars, mx, now, loops, pc, op, arg, loc, nres, codecVars>>

ConcNext ==
    \/ \E p \in Callers : ScriptedCall(p)
    \/ \E p \in Callers : Wait(p)
    \/ \E p \in Callers : AddAnchor(p)
    \/ \E p \in Callers : Anchors(p)
    \/ \E p \in Callers : Providers(p)
    \/ Tick

ConcSpec == ConcInit /\ [][ConcNext]_vars

(***************************************************************************)
(* The providers: callers add two providers of the same DID, built apart   *)
(* (as two calls of NewProvider), and look providers up, while anchors are *)
(* added and the loop is started and stopped.                              *)
(***************************************************************************)

ProviderObjects == {1, 2}

ProvCalls ==
    [op : {"Stop"}, arg : {NoArg}]
    \cup [op : {"GetProvider", "AddAnchor"}, arg : [did : MainDIDs, id : {0}]]
    \cup [op : {"AddProvider"}, arg : [did : ProviderDIDs, id : ProviderObjects]]
    \cup [op : {"Start"}, arg : [did : {0 - 1}, id : PositiveIntervals]]

ProvCall(p) == CallOf(p, ProvCalls)

ProvNext ==
    \/ \E p \in Callers : ProvCall(p)
    \/ \E p \in Callers : GetProvider(p)
    \/ \E p \in Callers : AddProvider(p)
    \/ \E p \in Callers : AddAnchor(p)
    \/ \E p \in Callers : Start(p)
    \/ \E p \in Callers : Stop(p)
    \/ \E l \in LoopIds : gcNewTicker(l)
    \/ \E l \in LoopIds : gcTick(l)
    \/ \E l \in LoopIds : gcDone(l)
    \/ \E l \in LoopIds : gcLock(l)
    \/ \E l \in LoopIds : gcAnchorEntries(l)
    \/ Tick

ProvSpec == Init /\ [][ProvNext]_vars

(***************************************************************************)
(* The concurrent misses: every caller calls GetAnchor once, for the same  *)
(* key DID, on a context that has no entry.                                *)
(***************************************************************************)

\* the DID every caller asks for
MissedDID == 1

MissScript == << [op |-> "GetAnchor", arg |-> [did |-> MissedDID, id |-> 0]] >>

MissInit ==
    /\ NewTrustContext
    /\ mx = 0
    /\ now = 0
    /\ loops = <<>>
    /\ pc = [p \in Callers |-> "idle"]
    /\ op = [p \in Callers |-> "none"]
    /\ arg = [p \in Callers |-> NoArg]
    /\ loc = [p \in Callers |-> NoAnchor]
    /\ nres = [p \in Callers |-> 0]
    /\ script = [p \in Callers |-> MissScript]
    /\ ret = NoRet
    /\ CodecIdle

MissNext ==
    \/ \E p \in Callers : ScriptedCall(p)
    \/ \E p \in Callers : getAnchor(p)
    \/ \E p \in Callers : Resolve(p)
    \/ \E p \in Callers : Lock(p)
    \/ \E p \in Callers : AddAnchor(p)
    \/ Tick

MissSpec == MissInit /\ [][MissNext]_vars

(***************************************************************************)
(* The specification of the codec: one round trip per public key           *)
(***************************************************************************)

\* the bytes the sample keys are made of
ByteSamples == {0, 1, 127, 128, 255}

\* Ed25519 keys: any 32 bytes
Ed25519Keys ==
    {[type |-> "Ed25519", rawOk |-> TRUE,
      raw |-> <<a, b>> \o Repeat(c, Ed25519PublicKeySize - 2)] :
        a \in ByteSamples, b \in ByteSamples, c \in ByteSamples}

\* the compressed serializations of curve points
CompressedPoints ==
    {raw \in {<<f, a>> \o Repeat(b, Secp256k1CompressedSize - 2) :
                f \in CompressedFormats, a \in ByteSamples, b \in ByteSamples} :
        ValidCompressed(raw)}

Secp256k1Keys == {[type |-> "Secp256k1", rawOk |-> TRUE, raw |-> r] : r \in CompressedPoints}

EthKeys == {[type |-> "Eth", rawOk |-> TRUE, raw |-> r] : r \in CompressedPoints}

\* the stub keys of the tests: a type outside the three, and a failing Raw()
StubKeys ==
    {[type |-> "Bogus", rawOk |-> TRUE, raw |-> <<1, 2, 3>>],
     [type |-> "Ed25519", rawOk |-> FALSE, raw |-> <<>>]}

CodecKeys == Ed25519Keys \cup Secp256k1Keys \cup EthKeys \cup StubKeys

NoDecode == [err |-> "none", cause |-> "none", key |-> NoKey]

CodecInit ==
    /\ NewTrustContext
    /\ mx = 0
    /\ now = 0
    /\ loops = <<>>
    /\ CallersIdle
    /\ ckey \in CodecKeys
    /\ curi = <<>>
    /\ cdec = NoDecode
    /\ cpc = "key"
    /\ FuncIdle

\* did := FromPublicKey(pubk)
Encode ==
    /\ cpc = "key"
    /\ curi' = FromPublicKey(ckey)
    /\ cpc' = "uri"
    /\ UNCHANGED <<ctxVars, mx, now, loops, callVars, ret, ckey, cdec>>
    /\ UNCHANGED <<registry, fn, inp, out>>

\* recovered, err := PublicKeyFromDID(did)
Decode ==
    /\ cpc = "uri"
    /\ cdec' = PublicKeyFromDID(curi)
    /\ cpc' = "done"
    /\ UNCHANGED <<ctxVars, mx, now, loops, callVars, ret, ckey, curi>>
    /\ UNCHANGED <<registry, fn, inp, out>>

CodecNext == Encode \/ Decode

CodecSpec == CodecInit /\ [][CodecNext]_vars

\* the keys C1 speaks of: one of the three types, with raw bytes
Supported(k) == k.type \in SupportedKeyTypes /\ k.rawOk

\* C1: for every public key k of a supported type, FromPublicKey(k) is a
\* non-empty DID of method "key", and PublicKeyFromDID of it succeeds with a
\* key of the same type and the same raw bytes.
C1_RoundTrip ==
    /\ (cpc \in {"uri", "done"} /\ Supported(ckey)) =>
            /\ curi # <<>>
            /\ Method(curi) = <<"k", "e", "y">>
    /\ (cpc = "done" /\ Supported(ckey)) =>
            /\ cdec.err = "none"
            /\ cdec.key.type = ckey.type
            /\ cdec.key.raw = ckey.raw

\* a round trip of an Eth key, whose tag is a three-byte varint, has been made
C1_Witness ==
    /\ cpc = "done"
    /\ ckey.type = "Eth"
    /\ ckey.raw[2] = 255
    /\ cdec.key.raw = ckey.raw


(***************************************************************************)
(* The Trust Context: locking                                              *)
(***************************************************************************)

\* C2: mutual exclusion.  At most one goroutine, caller or reclamation loop,
\* is between a Lock() of ctx.mx and the Unlock() that follows it, and it is
\* the one that holds the mutex: the critical sections of Anchors, Providers,
\* the lookup and the insert of GetAnchor, AddAnchor, GetProvider,
\* AddProvider, Start, Stop and the sweep never overlap.
C2_MutualExclusion ==
    /\ Cardinality(CallersInCS) + Cardinality(LoopsInCS) <= 1
    /\ \A p \in CallersInCS : mx = p
    /\ \A l \in LoopsInCS : mx = 0 - l
    /\ (CallersInCS = {} /\ LoopsInCS = {}) => mx = 0

\* a caller is in its critical section while another caller waits for the
\* second Lock() of GetAnchor and a loop waits for the Lock() of its sweep
C2_Witness ==
    \E p \in Callers, q \in Callers, l \in LoopIds :
        /\ pc[p] = "cs"
        /\ pc[q] = "lock2"
        /\ loops[l].pc = "gc_lock"

\* C3: no lost insert.  When every caller has added the anchor of its own
\* DID to the empty context, interleaved with the reads of Anchors() and
\* Providers(), and all the calls have returned, the Anchors() that follows
\* returns exactly the callers' DIDs, and the map holds each under one key.
C3_NoLostInsert ==
    /\ (\A p \in Callers : pc[p] = "idle" /\ script[p] = <<>>)
          => AnchorKeys(anchors) = Callers
    /\ (ret.op = "Anchors" /\ script[ret.caller] = <<>>)
          => /\ ret.dids = Callers
             /\ Cardinality(ret.dids) = NumCallers
             /\ \A d \in ret.dids : anchors[d].anchor = [did |-> d, by |-> 0]

\* the Anchors() after wg.Wait() has returned
C3_Witness ==
    /\ ret.op = "Anchors"
    /\ ret.caller = 1
    /\ script[1] = <<>>
    /\ \A p \in Callers : pc[p] = "idle" /\ script[p] = <<>>

(***************************************************************************)
(* The Trust Context: the anchor cache                                     *)
(***************************************************************************)

\* the step in which the call op of caller p leaves its first critical section
Leaves(p, o) == pc[p] = "cs" /\ op[p] = o /\ pc'[p] # "cs"

\* C4: cache hit.  When GetAnchor(d) holds the lock and the map has an entry
\* for d, expired or not, the call returns the stored anchor, has not called
\* the resolver, and leaves the entry with the expiry now + anchorEntryTTL,
\* which is after now; nothing else in the map changes.
C4_CacheHit ==
    [][\A p \in Callers :
          (Leaves(p, "GetAnchor") /\ anchors[arg[p].did] # NoEntry)
          => /\ pc'[p] = "idle"
             /\ ret'.caller = p /\ ret'.op = "GetAnchor"
             /\ ret'.kind = "anchor"
             /\ ret'.anchor = anchors[arg[p].did].anchor
             /\ ret'.nres = 0
             /\ anchors' = [anchors EXCEPT ![arg[p].did].expire = now + anchorEntryTTL]
             /\ anchors'[arg[p].did].expire > now]_vars

\* GetAnchor has returned from a hit on an entry whose expiry had passed
C4_Witness ==
    /\ ret.op = "GetAnchor"
    /\ ret.kind = "anchor"
    /\ ret.nres = 0
    /\ ret.found >= 0
    /\ ret.found < now
    /\ anchors[ret.arg.did].expire = now + anchorEntryTTL

\* the step in which loop l makes its sweep
Sweeps(l) == loops[l].pc = "gc_cs" /\ loops'[l].pc # "gc_cs"

\* C5: providers are permanent.  A provider in the map stays in it in every
\* step, so the set Providers() returns never shrinks; a sweep leaves the
\* providers map as it is; AddProvider leaves its provider in the map; and
\* GetProvider of a DID in the map returns the provider stored for it.
C5_ProvidersPermanent ==
    [][/\ \A d \in AllDIDs : providers[d] # NoProvider => providers'[d] = providers[d]
       /\ ProviderKeys(providers) \subseteq ProviderKeys(providers')
       /\ \A l \in LoopIds : Sweeps(l) => providers' = providers
       /\ \A p \in Callers :
            /\ Leaves(p, "AddProvider") => providers'[arg[p].did] = arg[p]
            /\ (Leaves(p, "GetProvider") /\ providers[arg[p].did] # NoProvider)
                 => /\ ret'.caller = p
                    /\ ret'.kind = "provider"
                    /\ ret'.provider = providers[arg[p].did]
            /\ Leaves(p, "Providers") => ret'.dids = ProviderKeys(providers)]_vars

\* a sweep has deleted an anchor from a context that holds a provider, after
\* a restart of the loop
C5_Witness ==
    /\ ret.op = "gcAnchorEntries"
    /\ ret.dids # {}
    /\ ProviderKeys(providers) # {}
    /\ Len(loops) > 1

\* C6: the sweep removes exactly the expired entries.  One pass of
\* gcAnchorEntries deletes the entries whose expiry is before the time the
\* pass reads, and leaves every other entry, those that expire at that very
\* time too, with its anchor and its expiry; Anchors() then holds no DID of
\* an entry that had expired.
C6_SweepExact ==
    [][\A l \in LoopIds : Sweeps(l) =>
          /\ \A d \in AllDIDs :
                anchors'[d] = IF anchors[d] # NoEntry /\ anchors[d].expire < now
                              THEN NoEntry ELSE anchors[d]
          /\ AnchorKeys(anchors') =
                {d \in AnchorKeys(anchors) : anchors[d].expire >= now}
          /\ ret'.dids = {d \in AnchorKeys(anchors) : anchors[d].expire < now}]_vars

\* a pass has deleted an entry and left one that expires at the time it read
C6_Witness ==
    /\ ret.op = "gcAnchorEntries"
    /\ ret.dids # {}
    /\ \E d \in AllDIDs : anchors[d] # NoEntry /\ anchors[d].expire = now

\* the entry of d has expired
ExpiredEntry(d) == anchors[d] # NoEntry /\ anchors[d].expire < now

\* C7: background expiry is live.  While a loop is started and not stopped,
\* an entry whose expiry has passed is eventually no longer an expired entry
\* of the map: a sweep removes it, unless GetAnchor refreshes it, AddAnchor
\* overwrites it, or Stop stops the loop.
C7_BackgroundExpiry ==
    \A d \in ProviderDIDs :
        (stop # 0 /\ ExpiredEntry(d)) ~> (~ExpiredEntry(d) \/ stop = 0)

\* the loop that is running has swept an expired entry away
C7_Witness ==
    /\ ret.op = "gcAnchorEntries"
    /\ ret.dids # {}
    /\ stop # 0
    /\ ret.caller = 0 - stop

(***************************************************************************)
(* The Trust Context: Start, Stop and the reclamation loops                *)
(***************************************************************************)

\* the step in which call o of caller p returns
Returned(p, o) == pc[p] = "cs" /\ op[p] = o /\ pc'[p] = "idle"

\* C8: the Start/Stop state machine.  ctx.stop is set by every Start, unset by
\* every Stop and changed by nothing else, so it is set exactly when the last
\* of these calls was a Start.  The only loop whose context is not cancelled
\* is the one ctx.stop refers to, the loop of the last Start, which cancelled
\* the loop before it.  Stop on a context without a loop returns and changes
\* nothing.
C8_StartStop ==
    /\ [](stop # 0 => stop = Len(loops) /\ ~loops[stop].cancelled)
    /\ [](\A l \in LoopIds : ~loops[l].cancelled => l = stop)
    /\ [][/\ \A p \in Callers :
               /\ Returned(p, "Start") =>
                    /\ stop' = Len(loops) + 1
                    /\ Len(loops') = Len(loops) + 1
                    /\ ~loops'[stop'].cancelled
                    /\ \A l \in LoopIds : loops'[l].cancelled
                    /\ ret'.kind = "ok"
               /\ Returned(p, "Stop") =>
                    /\ stop' = 0
                    /\ \A l \in LoopIds : loops'[l].cancelled
                    /\ ret'.kind = "ok"
                    /\ stop = 0 => /\ anchors' = anchors
                                   /\ providers' = providers
                                   /\ loops' = loops
          /\ (\A p \in Callers : ~Returned(p, "Start") /\ ~Returned(p, "Stop"))
                => stop' = stop]_vars

\* Stop has returned on a context that had no loop, after a restart and a Stop
C8_Witness ==
    /\ ret.op = "Stop"
    /\ ret.kind = "ok"
    /\ stop = 0
    /\ Len(loops) = MaxStarts
    /\ \A l \in LoopIds : loops[l].pc = "returned"

\* C9, as stated: at most one loop has been spawned and has not returned
C9_AtMostOneLoop ==
    Cardinality({l \in LoopIds : Live(l)}) <= 1

\* C9, amended: at most one of the loops that have been spawned and have not
\* returned has a context that is not cancelled, the one ctx.stop refers to;
\* a loop that Start or Stop cancelled can still be there, on its way out.
C9_AtMostOneActiveLoop ==
    /\ Cardinality({l \in LoopIds : Live(l) /\ ~loops[l].cancelled}) <= 1
    /\ \A l \in LoopIds : (Live(l) /\ l # stop) => loops[l].cancelled

\* the loop a Start replaced is still there beside the new one
C9_Witness ==
    /\ Len(loops) = 2
    /\ Live(1) /\ loops[1].cancelled
    /\ Live(2) /\ ~loops[2].cancelled

\* C10: stopped loops terminate.  A loop whose context Stop or a replacing
\* Start has cancelled eventually returns; and while ctx.stop is unset,
\* eventually no loop is left, unless a Start spawns one.
C10_StoppedLoopsTerminate ==
    /\ \A l \in 1..MaxStarts :
          (l \in LoopIds /\ loops[l].cancelled)
             ~> (l \in LoopIds /\ loops[l].pc = "returned")
    /\ (stop = 0) ~> (stop # 0 \/ \A l \in LoopIds : ~Live(l))

\* after a restart and a Stop every loop has returned
C10_Witness ==
    /\ stop = 0
    /\ Len(loops) = MaxStarts
    /\ \A l \in LoopIds : loops[l].pc = "returned" /\ loops[l].cancelled


(***************************************************************************)
(* key.go: anchors and providers                                           *)
(***************************************************************************)

\* a private key is the public key GetPublic() returns for it
GetPublic(privk) == privk.pub

\* NewAnchor(did, pubk)
NewAnchor(did, pubk) == [did |-> did, pubk |-> pubk]

\* NewProvider(did, privk)
NewProvider(did, privk) == [did |-> did, privk |-> privk]

\* AnchorFromPublicKey(pubk): (Anchor, error)
AnchorFromPublicKey(pubk) ==
    [err |-> "none", anchor |-> NewAnchor(FromPublicKey(pubk), pubk)]

\* a ProviderFromPrivateKey that leaves the DID of the provider empty
ProviderFromPrivateKeyMutant(privk) ==
    [err |-> "none", provider |-> NewProvider(<<>>, privk)]

\* ProviderFromPrivateKey(privk): (Provider, error)
ProviderFromPrivateKey(privk) ==
    [err |-> "none", provider |-> NewProvider(FromPublicKey(GetPublic(privk)), privk)]

\* (p *PrivateKeyProvider) Anchor()
ProviderAnchor(p) == NewAnchor(p.did, GetPublic(p.privk))

\* a Verify that looks at the verdict before it looks at the error
VerifyMutant(v) ==
    IF ~v.ok THEN "ErrInvalidSignature"
    ELSE IF v.err # "none" THEN v.err
    ELSE "none"

\* (a *PublicKeyAnchor) Verify(data, sig), given what a.pubk.Verify(data, sig)
\* returns: the verdict v.ok and the error v.err
Verify(v) ==
    IF v.err # "none" THEN v.err
    ELSE IF ~v.ok THEN "ErrInvalidSignature"
    ELSE "none"

(***************************************************************************)
(* The specification of the package functions: the resolvers a caller      *)
(* registers, then one call of a function on an argument.                  *)
(***************************************************************************)

\* the longest string FromString and GetAnchorForDID are called with
MaxStrLen == 7

\* the characters of these strings: a colon and a character that is none
Alphabet == {"a", ":"}

RECURSIVE StringsUpTo(_)
StringsUpTo(n) ==
    IF n = 0 THEN {<<>>}
    ELSE StringsUpTo(n - 1) \cup
         {Append(str, c) : str \in StringsUpTo(n - 1), c \in Alphabet}

DIDStrings == StringsUpTo(MaxStrLen)

\* One function is called in a run.  GetAnchorForDID is called after any
\* registrations; the other functions do not read anchorMethods and are
\* called with it as init() left it.
Callable(f) == fn = "none" \/ (f \in {"Register", "GetAnchorForDID"} /\ fn = "Register")

\* the call of function f on x returned y
Called(f, x, y) ==
    /\ Callable(f)
    /\ fn' = f
    /\ inp' = x
    /\ out' = y
    /\ UNCHANGED <<ctxVars, mx, now, loops, callVars, ret, ckey, curi, cdec, cpc>>

\* did, err := FromString(s)
CallFromString ==
    \E str \in DIDStrings :
        /\ Called("FromString", str, FromString(str))
        /\ UNCHANGED registry

FuncInit ==
    /\ NewTrustContext
    /\ mx = 0
    /\ now = 0
    /\ loops = <<>>
    /\ CallersIdle
    /\ CodecIdle


\* the key bytes of the sample: Ed25519 keys and others of a wrong length
Ed25519Bodies == {Repeat(b, Ed25519PublicKeySize) : b \in {0, 255}}

ShortBodies == {<<>>, Repeat(1, Ed25519PublicKeySize - 1)}

\* compressed serializations with a format byte 2 or 3: of curve points, and
\* of abscissas that are not on the curve
SamplePoints ==
    {<<f, a>> \o Repeat(b, Secp256k1CompressedSize - 2) :
        f \in CompressedFormats, a \in {0, 255}, b \in {1, 128}}

PointBodies == {c \in SamplePoints : ValidCompressed(c)}

OffCurveBodies == {c \in SamplePoints : ~ValidCompressed(c)}

\* the 65-byte serialization with format byte f of the point whose
\* compressed serialization is c
Uncompressed(f, c) == <<f>> \o Tail(c) \o Ordinate(Tail(c), c[1] - 2)

UncompressedBodies == {Uncompressed(UncompressedFormat, c) : c \in PointBodies}

HybridBodies == {Uncompressed(4 + c[1], c) : c \in PointBodies}

\* 65 bytes that are no point: a hybrid format byte that contradicts the
\* ordinate, and an ordinate that is not the abscissa's
BadUncompressedBodies ==
    {Uncompressed(9 - c[1] + 2, c) : c \in PointBodies}
    \cup {<<UncompressedFormat>> \o Tail(c) \o Tail(c) : c \in OffCurveBodies}

\* what each key type's unmarshal accepts
AcceptedBodies(tag) ==
    IF tag = multicodecKindEd25519PubKey THEN Ed25519Bodies
    ELSE IF tag \in {multicodecKindSecp256k1PubKey, multicodecKindEthPubKey}
    THEN PointBodies \cup UncompressedBodies \cup HybridBodies
    ELSE {}

AllBodies ==
    Ed25519Bodies \cup ShortBodies \cup PointBodies \cup OffCurveBodies
    \cup UncompressedBodies \cup HybridBodies \cup BadUncompressedBodies

KeyTags == {multicodecKindEd25519PubKey, multicodecKindSecp256k1PubKey,
            multicodecKindEthPubKey}

\* tags of other multicodecs: identity, one byte, two bytes
OtherTags == {0, 18, 153, 236}

\* a tag and key bytes
Payloads == {PutUvarint(t) \o b : t \in KeyTags \cup OtherTags, b \in AllBodies}

GoodPayloads == UNION {{PutUvarint(t) \o b : b \in AcceptedBodies(t)} : t \in KeyTags}

\* a tag and no key bytes
TagOnlyPayloads == {PutUvarint(t) : t \in KeyTags}

\* no varint: nothing, a tag cut short, a tag with a zero byte too many, and
\* more continuation bytes than a 64-bit number has
BadVarintPayloads ==
    {<<>>, <<237>>, <<129, 222>>, <<128>>}
    \cup {<<237, 128, 0>> \o b : b \in Ed25519Bodies}
    \cup {Repeat(255, 10) \o <<1>>}

KeyURIOf(marker, payload) == keyPrefix \o <<":", marker>> \o B58Encode(payload)

WellFormedURIs == {KeyURIOf(Base58BTC, pl) : pl \in GoodPayloads}

Base58URIs == {KeyURIOf(Base58BTC, pl) : pl \in Payloads}

TagOnlyURIs == {KeyURIOf(Base58BTC, pl) : pl \in TagOnlyPayloads}

BadVarintURIs == {KeyURIOf(Base58BTC, pl) : pl \in BadVarintPayloads}

\* "did:key:uSGVsbG8"
Base64URI == keyPrefix \o <<":", "u", "S", "G", "V", "s", "b", "G", "8">>

\* a well-formed payload under the marker of another base
OtherBaseURIs ==
    {[u EXCEPT ![Len(keyPrefix) + 2] = m] : u \in WellFormedURIs, m \in {"u", "m", "f", "Z"}}
    \cup {Base64URI}

\* a well-formed URI with its last character replaced by one that is no
\* base-58 digit
IllegalCharURIs ==
    {[u EXCEPT ![Len(u)] = c] : u \in WellFormedURIs, c \in {"0", "O", "I", "l", "!"}}

\* a well-formed URI without the colon after "did:key", with a marker that no
\* base has, and with nothing after the colon
OtherURIs ==
    {keyPrefix \o SubSeq(u, Len(keyPrefix) + 2, Len(u)) : u \in WellFormedURIs}
    \cup {[u EXCEPT ![Len(keyPrefix) + 2] = "!"] : u \in WellFormedURIs}
    \cup {keyPrefix \o <<":">>, keyPrefix, <<>>, URI(WebDID)}

ParseInputs ==
    Base58URIs \cup TagOnlyURIs \cup BadVarintURIs \cup OtherBaseURIs
    \cup IllegalCharURIs \cup OtherURIs

\* key, err := ParseKeyURI(uri)
CallParseKeyURI ==
    \E uri \in ParseInputs :
        /\ Called("ParseKeyURI", uri, ParseKeyURI(uri))
        /\ UNCHANGED registry

\* the methods a caller registers a resolver for, and the resolvers
RegisteredMethods == {<<"a">>}

Resolvers == {"makeKeyAnchor", "verbatim", "failing"}

\* anchorMethods[m] = f
Register ==
    \E m \in RegisteredMethods, f \in Resolvers :
        /\ Called("Register", m, <<>>)
        /\ registry' = [x \in DOMAIN registry \cup {m} |-> IF x = m THEN f ELSE registry[x]]

\* the DIDs GetAnchorForDID is called with: the strings FromString is called
\* with, URIs of keys and URIs that are none
ResolverDIDs ==
    DIDStrings \cup WellFormedURIs \cup TagOnlyURIs \cup BadVarintURIs
    \cup OtherURIs \cup {Base64URI}

\* anchor, err := GetAnchorForDID(did)
CallGetAnchorForDID ==
    \E did \in ResolverDIDs :
        /\ Called("GetAnchorForDID", did, Dispatch(registry, did))
        /\ UNCHANGED registry

\* anchor, err := AnchorFromPublicKey(pubk)
CallAnchorFromPublicKey ==
    \E pubk \in CodecKeys :
        /\ Called("AnchorFromPublicKey", pubk, AnchorFromPublicKey(pubk))
        /\ UNCHANGED registry

\* the private keys of the sample: the keys of some of the public keys
PrivateKeys ==
    {[pub |-> k] : k \in {k \in CodecKeys : k.raw = <<>> \/ k.raw[2] # k.raw[3]}}

\* provider, err := ProviderFromPrivateKey(privk)
CallProviderFromPrivateKey ==
    \E privk \in PrivateKeys :
        /\ Called("ProviderFromPrivateKey", privk, ProviderFromPrivateKey(privk))
        /\ UNCHANGED registry

\* the DIDs NewProvider is called with: the private key's own, another
\* key's, one of another method, and the empty one
ProviderDIDsOf(privk) ==
    {FromPublicKey(GetPublic(privk)), URI(1), URI(WebDID), <<>>}

\* provider := NewProvider(did, privk)
CallNewProvider ==
    \E privk \in PrivateKeys :
        \E did \in ProviderDIDsOf(privk) :
            /\ Called("NewProvider", [did |-> did, privk |-> privk],
                      [err |-> "none", provider |-> NewProvider(did, privk)])
            /\ UNCHANGED registry

\* what a.pubk.Verify(data, sig) can return: a verdict and an error
Verdicts == [ok : BOOLEAN, err : {"none", "malformed signature"}]

\* err := anchor.Verify(data, sig)
CallVerify ==
    \E v \in Verdicts :
        /\ Called("Verify", v, Verify(v))
        /\ UNCHANGED registry

\* pubk, err := PublicKeyFromDID(did)
CallPublicKeyFromDID ==
    \E did \in ResolverDIDs :
        /\ Called("PublicKeyFromDID", did, PublicKeyFromDID(did))
        /\ UNCHANGED registry

FuncNext ==
    \/ CallFromString
    \/ CallParseKeyURI
    \/ CallPublicKeyFromDID
    \/ Register
    \/ CallGetAnchorForDID
    \/ CallAnchorFromPublicKey
    \/ CallProviderFromPrivateKey
    \/ CallNewProvider
    \/ CallVerify

FuncSpec == FuncInit /\ [][FuncNext]_vars


(***************************************************************************)
(* The package functions: DIDs                                             *)
(***************************************************************************)

\* the string has exactly two colons, none of them first, last or next to
\* the other: three segments, none empty
ThreeSegments(str) ==
    /\ Cardinality({i \in 1..Len(str) : str[i] = ":"}) = 2
    /\ str[1] # ":" /\ str[Len(str)] # ":"
    /\ \A i \in 1..(Len(str) - 1) : ~(str[i] = ":" /\ str[i + 1] = ":")

C20_DecodeWellFormedOnly ==
    fn = "ParseKeyURI" =>
        /\ out.err = "none" => inp \in WellFormedURIs /\ out.key # NoKey /\ out.key.rawOk
        /\ out.err # "none" => out.key = NoKey
        /\ inp \in OtherBaseURIs \cup IllegalCharURIs \cup BadVarintURIs \cup TagOnlyURIs
              => out.err # "none"

\* the URI of the uncompressed serialization of a Secp256k1 point was decoded
C20_Witness ==
    /\ fn = "ParseKeyURI"
    /\ out.err = "none"
    /\ out.key.type = "Secp256k1"
    /\ inp \in {KeyURIOf(Base58BTC, PutUvarint(multicodecKindSecp256k1PubKey) \o b) :
                   b \in UncompressedBodies}


\* C19: silent encode failure.  FromPublicKey(k), which is FormatKeyURI(k),
\* is the empty DID when k's type is none of the three or k's Raw() fails,
\* and starts with "did:key:z" for every key of the three types with raw
\* bytes; a string is all FormatKeyURI returns.
C19_SilentEncodeFailure ==
    cpc \in {"uri", "done"} =>
        IF ckey.type \in SupportedKeyTypes /\ ckey.rawOk
        THEN HasPrefix(curi, keyPrefix \o <<":", Base58BTC>>) /\ Len(curi) > Len(keyPrefix) + 2
        ELSE curi = <<>>

\* the key whose Raw() fails has been encoded
C19_Witness ==
    /\ cpc = "uri"
    /\ ckey.type = "Ed25519"
    /\ ~ckey.rawOk
    /\ curi = <<>>

(***************************************************************************)
(* The package functions: the resolver, anchors and providers              *)
(***************************************************************************)

KeyMethod == <<"k", "e", "y">>

\* the number of colons of a string
Colons(str) == Cardinality({i \in 1..Len(str) : str[i] = ":"})

\* C14: resolver dispatch.  GetAnchorForDID(did) fails with ErrNoAnchorMethod
\* exactly when no resolver is registered for did.Method(), as for the empty
\* DID and every URI that has not three segments (no empty method being
\* registered); otherwise it returns what the resolver registered for the
\* method returns.  Before any registration only "key" is registered, with
\* makeKeyAnchor.
C14_ResolverDispatch ==
    /\ fn \notin {"Register", "GetAnchorForDID"} => registry = [m \in {KeyMethod} |-> "makeKeyAnchor"]
    /\ fn = "GetAnchorForDID" =>
        /\ out.err = "ErrNoAnchorMethod" <=> Method(inp) \notin DOMAIN registry
        /\ Colons(inp) # 2 => out.err = "ErrNoAnchorMethod"
        /\ out.err = "ErrNoAnchorMethod" => out.did = <<>> /\ out.pubk = NoKey
        /\ Method(inp) \in DOMAIN registry =>
              CASE registry[Method(inp)] = "makeKeyAnchor" -> out = makeKeyAnchor(inp)
                [] registry[Method(inp)] = "verbatim" ->
                       out = [err |-> "none", did |-> inp, pubk |-> NoKey]
                [] OTHER -> out.err = "custom resolver failed" /\ out.did = <<>>

\* a resolver registered for another method than "key" has resolved a DID
C14_Witness ==
    /\ fn = "GetAnchorForDID"
    /\ Method(inp) = <<"a">>
    /\ <<"a">> \in DOMAIN registry
    /\ registry[<<"a">>] = "verbatim"
    /\ out.err = "none"
    /\ out.did = inp

\* C15: the anchor invariant.  The anchor AnchorFromPublicKey returns, and
\* the anchor the resolver of the method "key" returns for a URI it
\* accepts, has the DID FromPublicKey gives for its public key.
C15_AnchorInvariant ==
    /\ fn = "AnchorFromPublicKey" =>
          out.anchor.did = FromPublicKey(out.anchor.pubk)
    /\ (fn = "GetAnchorForDID" /\ Method(inp) = KeyMethod /\ out.err = "none") =>
          out.did = FromPublicKey(out.pubk)

\* C16, as stated: the provider ProviderFromPrivateKey or NewProvider
\* returns has the DID of its private key's public key, and its Anchor() has
\* that DID and that public key.
C16_ProviderInvariant ==
    fn \in {"ProviderFromPrivateKey", "NewProvider"} =>
        /\ out.provider.did = FromPublicKey(GetPublic(out.provider.privk))
        /\ ProviderAnchor(out.provider).did = out.provider.did
        /\ ProviderAnchor(out.provider).pubk = GetPublic(out.provider.privk)

\* C16, amended: the provider ProviderFromPrivateKey returns has the DID of
\* its private key's public key; the provider NewProvider returns has the
\* DID it was called with, which is that DID when the caller passed it; in
\* both cases Anchor() has the provider's DID and the public key of its
\* private key, so that with the key's DID it is the anchor
\* AnchorFromPublicKey returns for the public key.
C16_ProviderInvariantOfKey ==
    /\ fn = "ProviderFromPrivateKey" =>
          /\ out.err = "none"
          /\ out.provider.privk = inp
          /\ out.provider.did = FromPublicKey(GetPublic(inp))
          /\ ProviderAnchor(out.provider) = AnchorFromPublicKey(GetPublic(inp)).anchor
    /\ fn = "NewProvider" =>
          /\ out.provider.privk = inp.privk
          /\ out.provider.did = inp.did
          /\ inp.did = FromPublicKey(GetPublic(inp.privk)) =>
                ProviderAnchor(out.provider) = AnchorFromPublicKey(GetPublic(inp.privk)).anchor
    /\ fn \in {"ProviderFromPrivateKey", "NewProvider"} =>
          /\ ProviderAnchor(out.provider).did = out.provider.did
          /\ ProviderAnchor(out.provider).pubk = GetPublic(out.provider.privk)

\* ProviderFromPrivateKey has made the provider of an Eth key
C16_Witness ==
    /\ fn = "ProviderFromPrivateKey"
    /\ inp.pub.type = "Eth"
    /\ out.provider.did # <<>>
    /\ ProviderAnchor(out.provider).pubk = inp.pub

\* C17: the outcomes of Anchor.Verify.  Verify returns nil exactly when the
\* key's Verify returns (true, nil), ErrInvalidSignature exactly when it
\* returns (false, nil), and the key's error whenever it returns one.
C17_VerifyOutcome ==
    fn = "Verify" =>
        /\ out = "none" <=> (inp.ok /\ inp.err = "none")
        /\ out = "ErrInvalidSignature" <=> (~inp.ok /\ inp.err = "none")
        /\ inp.err # "none" => out = inp.err

\* the key's Verify failed without a verdict for the signature
C17_Witness ==
    /\ fn = "Verify"
    /\ ~inp.ok
    /\ inp.err # "none"
    /\ out = inp.err

(***************************************************************************)
(* The Trust Context: failed resolves, provider lookups, concurrent misses *)
(***************************************************************************)

\* caller p takes the step after its resolver call
Resolves(p) == pc[p] = "resolve" /\ pc'[p] # "resolve"

\* C11: a failed resolve leaves no trace.  A GetAnchor(d) that found no
\* entry always goes on to the resolver; when the resolver fails it returns
\* no anchor and an error that wraps the resolver's error, after exactly one
\* resolver invocation, and the step changes neither the anchors (no entry
\* for d is there before or after), nor the providers, nor the loop handle.
C11_FailedResolveNoTrace ==
    [][\A p \in Callers :
        /\ (Leaves(p, "GetAnchor") /\ anchors[arg[p].did] = NoEntry) =>
              /\ pc'[p] = "resolve"
              /\ nres'[p] = 0
              /\ UNCHANGED ctxVars
        /\ pc'[p] = "resolve" => anchors'[arg'[p].did] = NoEntry \/ pc[p] = "resolve"
        /\ (Resolves(p) /\ Resolved[arg[p].did].err # "none") =>
              /\ pc'[p] = "idle"
              /\ ret'.caller = p /\ ret'.op = "GetAnchor" /\ ret'.arg = arg[p]
              /\ ret'.kind = "error"
              /\ ret'.anchor = NoAnchor
              /\ ret'.err # Resolved[arg[p].did].err
              /\ ErrorIs(ret', Resolved[arg[p].did].err)
              /\ ret'.nres = 1
              /\ anchors'[arg[p].did] = anchors[arg[p].did]
              /\ UNCHANGED <<ctxVars, mx>>
      ]_vars

\* a GetAnchor has returned the resolver's error while a loop is running,
\* and no entry for its DID is there
C11_Witness ==
    /\ ret.op = "GetAnchor"
    /\ ret.kind = "error"
    /\ ret.cause = "ErrNoAnchorMethod"
    /\ ret.nres = 1
    /\ anchors[ret.arg.did] = NoEntry
    /\ stop # 0

\* C12: GetProvider is lookup-only.  GetProvider(d) changes neither
\* anchors, nor providers, nor the loop handle; it returns providers[d], or
\* ErrNoProvider and no provider when d is not a key; and providers[d] is
\* the provider the last AddProvider for d stored: only the critical section
\* of an AddProvider for d changes it, to the provider it was called with.
C12_GetProviderLookupOnly ==
    [][/\ \A p \in Callers :
            /\ Leaves(p, "GetProvider") =>
                  /\ UNCHANGED ctxVars
                  /\ ret'.caller = p /\ ret'.op = "GetProvider" /\ ret'.arg = arg[p]
                  /\ IF providers[arg[p].did] = NoProvider
                     THEN /\ ret'.kind = "error"
                          /\ ret'.err = "ErrNoProvider"
                          /\ ret'.provider = NoProvider
                     ELSE /\ ret'.kind = "provider"
                          /\ ret'.err = "none"
                          /\ ret'.provider = providers[arg[p].did]
            /\ Leaves(p, "AddProvider") => providers'[arg[p].did] = arg[p]
       /\ \A d \in AllDIDs :
            providers'[d] # providers[d] =>
                \E p \in Callers : Leaves(p, "AddProvider") /\ arg[p].did = d
      ]_vars

\* GetProvider has returned the second provider object of a DID, with an
\* anchor in the map and a loop running
C12_Witness ==
    /\ ret.op = "GetProvider"
    /\ ret.kind = "provider"
    /\ ret.provider = [did |-> 1, id |-> 2]
    /\ providers[1] = ret.provider
    /\ AnchorKeys(anchors) # {}
    /\ stop # 0

\* caller p takes the critical section of the AddAnchor of its GetAnchor
Inserts(p) == pc[p] = "cs2" /\ pc'[p] = "idle"

\* every caller has made its call and returned
AllReturned == \A p \in Callers : pc[p] = "idle" /\ script[p] = <<>>

\* C13: the last insert wins on concurrent misses.  Every call that missed
\* invokes the resolver itself and gets an anchor of its own for d; its
\* insert makes that anchor the entry's and the call returns it; nothing
\* else changes the entry's anchor, so that when all calls have returned the
\* one entry of the map holds the anchor of the insert that ran last.
C13_LastInsertWins ==
    /\ [](AllReturned => AnchorKeys(anchors) = {MissedDID})
    /\ [][/\ \A p \in Callers :
               /\ Resolves(p) =>
                     /\ pc'[p] = "lock2"
                     /\ nres'[p] = 1
                     /\ loc'[p] = [did |-> arg[p].did, by |-> p]
                     /\ UNCHANGED anchors
               /\ Inserts(p) =>
                     /\ anchors'[MissedDID].anchor = loc[p]
                     /\ AnchorKeys(anchors') = {MissedDID}
                     /\ ret'.caller = p
                     /\ ret'.kind = "anchor"
                     /\ ret'.anchor = [did |-> MissedDID, by |-> p]
          /\ anchors'[MissedDID].anchor # anchors[MissedDID].anchor =>
                \E p \in Callers : Inserts(p)
         ]_vars

\* the first caller resolved although the second was resolving too, and
\* is about to insert over the entry the second has inserted
C13_Witness ==
    /\ pc[1] = "cs2"
    /\ loc[1] = [did |-> MissedDID, by |-> 1]
    /\ anchors[MissedDID].anchor = [did |-> MissedDID, by |-> 2]

(***************************************************************************)
(* The package functions: the tag and the prefix of a key URI              *)
(***************************************************************************)

\* "did:key:z"
Base58Prefix == keyPrefix \o <<":", Base58BTC>>

\* the bytes that the base-58 digits after "did:key:z" stand for
PayloadOf(uri) == B58Decode(SubSeq(uri, Len(Base58Prefix) + 1, Len(uri)))

\* the URI is "did:key:z" and base-58 digits of bytes that begin with a
\* varint
TaggedURI(uri) ==
    /\ HasPrefix(uri, Base58Prefix)
    /\ PayloadOf(uri).err = "none"
    /\ FromUvarint(PayloadOf(uri).data).err = "none"

TagOf(uri) == FromUvarint(PayloadOf(uri).data).value

BodyOf(uri) ==
    SubSeq(PayloadOf(uri).data, FromUvarint(PayloadOf(uri).data).n + 1,
           Len(PayloadOf(uri).data))

\* C21: the unknown codec tag.  For a base-58 payload whose varint tag is
\* none of 0xED, 0xE7, 0xEF01 ParseKeyURI returns ErrInvalidKeyType and no
\* key, whatever follows the tag; for each of the three tags it returns what
\* the unmarshal routine of that key type returns for the bytes after the
\* tag, a key of that type if any.
C21_UnknownCodecTag ==
    (fn = "ParseKeyURI" /\ TaggedURI(inp)) =>
        CASE TagOf(inp) = 237 ->
                 /\ out = UnmarshalEd25519PublicKey(BodyOf(inp))
                 /\ out.err = "none" => out.key.type = "Ed25519"
          [] TagOf(inp) = 231 ->
                 /\ out = UnmarshalSecp256k1PublicKey(BodyOf(inp))
                 /\ out.err = "none" => out.key.type = "Secp256k1"
          [] TagOf(inp) = 61185 ->
                 /\ out = UnmarshalEthPublicKey(BodyOf(inp))
                 /\ out.err = "none" => out.key.type = "Eth"
          [] OTHER -> out = [err |-> "ErrInvalidKeyType", key |-> NoKey]

\* a payload of an unknown two-byte tag and 32 key bytes has been rejected
C21_Witness ==
    /\ fn = "ParseKeyURI"
    /\ TaggedURI(inp)
    /\ TagOf(inp) = 153
    /\ Len(BodyOf(inp)) = Ed25519PublicKeySize
    /\ out.err = "ErrInvalidKeyType"

\* C22: the method prefix check.  ParseKeyURI fails with its not-a-'key'-type
\* error for every URI that does not begin with "did:key:", and
\* PublicKeyFromDID fails with ErrInvalidDID for every DID whose method is
\* not "key".
C22_MethodPrefixCheck ==
    /\ (fn = "ParseKeyURI" /\ ~HasPrefix(inp, keyPrefix \o <<":">>)) =>
          out = [err |-> "decentralized identifier is not a 'key' type", key |-> NoKey]
    /\ (fn = "PublicKeyFromDID" /\ Method(inp) # KeyMethod) =>
          out.err = "ErrInvalidDID" /\ out.key = NoKey

(***************************************************************************)
(* The Trust Context: snapshots, the resolver and the lock, expiry         *)
(***************************************************************************)

\* C23: the snapshots are exact and free of side effects.  Anchors() returns
\* the set of the keys the anchors map has while the call holds the lock,
\* those of entries whose expiry has passed too, and Providers() the set of
\* the keys of the providers map; neither changes an entry, an expiry, the
\* providers, the loop handle or a loop.
C23_SnapshotsExact ==
    [][\A p \in Callers :
          /\ Leaves(p, "Anchors") =>
                /\ mx = p
                /\ pc'[p] = "idle"
                /\ ret'.caller = p /\ ret'.op = "Anchors" /\ ret'.kind = "dids"
                /\ ret'.dids = {d \in AllDIDs : anchors[d] # NoEntry}
                /\ UNCHANGED <<anchors, providers, stop, loops>>
          /\ Leaves(p, "Providers") =>
                /\ mx = p
                /\ pc'[p] = "idle"
                /\ ret'.caller = p /\ ret'.op = "Providers" /\ ret'.kind = "dids"
                /\ ret'.dids = {d \in AllDIDs : providers[d] # NoProvider}
                /\ UNCHANGED <<anchors, providers, stop, loops>>
      ]_vars

\* Anchors() has returned the DID of an entry whose expiry has passed
C23_Witness ==
    /\ ret.op = "Anchors"
    /\ \E d \in ret.dids : anchors[d] # NoEntry /\ anchors[d].expire < now

\* caller p is in the resolver of its GetAnchor
Resolving(p) == pc[p] = "resolve"

\* C24: the resolver runs outside the lock.  A caller in the resolver of its
\* GetAnchor does not hold the mutex, and neither does one that waits for
\* the insert; so while it is there, whenever no one else holds the mutex
\* another caller can begin any operation and a loop that waits for its
\* sweep can take the mutex, and whoever holds the mutex can complete its
\* critical section.
C24_ResolverOutsideLock ==
    \A p \in Callers :
        /\ pc[p] \in {"resolve", "lock2"} => mx # p
        /\ Resolving(p) =>
              /\ \A q \in Callers \ {p} : (pc[q] = "idle" /\ mx = 0) => ENABLED Call(q)
              /\ \A q \in Callers \ {p} : (pc[q] = "lock2" /\ mx = 0) => ENABLED Lock(q)
              /\ \A l \in LoopIds : (loops[l].pc = "gc_lock" /\ mx = 0) => ENABLED gcLock(l)
              /\ \A l \in LoopIds : loops[l].pc = "gc_cs" => ENABLED gcAnchorEntries(l)
              /\ \A q \in Callers \ {p} :
                    pc[q] \in {"cs", "cs2"} =>
                        ENABLED (Anchors(q) \/ Providers(q) \/ getAnchor(q) \/ AddAnchor(q)
                                 \/ GetProvider(q) \/ AddProvider(q) \/ Start(q) \/ Stop(q))

\* a sweep has run to its end and deleted an entry while a caller is in the
\* resolver
C24_Witness ==
    /\ \E p \in Callers : Resolving(p) /\ nres[p] = 0
    /\ ret.op = "gcAnchorEntries"
    /\ ret.dids # {}
    /\ mx = 0

\* caller p takes a step that writes the entry of d: the insert of its
\* AddAnchor or of its GetAnchor, or the hit of its GetAnchor
Touches(p, d) ==
    \/ Leaves(p, "AddAnchor") /\ arg[p].did = d
    \/ Inserts(p) /\ loc[p].did = d
    \/ Leaves(p, "GetAnchor") /\ arg[p].did = d /\ anchors[d] # NoEntry

\* C25: no early eviction.  The clock never goes back; an entry is written
\* only by an insert or a hit, which sets its expiry to the time of the step
\* plus anchorEntryTTL; the expiry of an entry never decreases; and an entry
\* is removed only by a sweep that reads a time after its expiry, that is
\* more than anchorEntryTTL after the insert or hit that wrote it last.
C25_NoEarlyEviction ==
    [][/\ now' >= now
       /\ \A d \in AllDIDs :
            /\ \A p \in Callers :
                  Touches(p, d) => anchors'[d].expire = now + anchorEntryTTL
            /\ (anchors'[d] # anchors[d] /\ anchors'[d] # NoEntry) =>
                  /\ \E p \in Callers : Touches(p, d)
                  /\ anchors'[d].expire = now + anchorEntryTTL
            /\ (anchors[d] # NoEntry /\ anchors'[d] # NoEntry) =>
                  anchors'[d].expire >= anchors[d].expire
            /\ (anchors[d] # NoEntry /\ anchors'[d] = NoEntry) =>
                  /\ \E l \in LoopIds : Sweeps(l)
                  /\ now - (anchors[d].expire - anchorEntryTTL) > anchorEntryTTL
      ]_vars

\* a sweep at the very time an entry expires has deleted nothing
C25_Witness ==
    /\ ret.op = "gcAnchorEntries"
    /\ ret.dids = {}
    /\ \E d \in AllDIDs : anchors[d] # NoEntry /\ anchors[d].expire = now

\* C26: the keys of the maps are the DIDs of their values.  Every entry of
\* the anchors map is under the DID of its anchor and every provider under
\* its own DID; so a GetAnchor(d) answered from the map returns an anchor
\* whose DID is d, and a GetProvider(d) that succeeds a provider whose DID
\* is d.
C26_KeysMatchValues ==
    /\ \A d \in AllDIDs : anchors[d] # NoEntry => anchors[d].anchor.did = d
    /\ \A d \in AllDIDs : providers[d] # NoProvider => providers[d].did = d
    /\ (ret.op = "GetAnchor" /\ ret.kind = "anchor") => ret.anchor.did = ret.arg.did
    /\ (ret.op = "GetProvider" /\ ret.kind = "provider") => ret.provider.did = ret.arg.did

\* GetProvider has returned a provider from a context that holds the anchor
\* of a key and an anchor of another method
C26_Witness ==
    /\ ret.op = "GetProvider"
    /\ ret.kind = "provider"
    /\ ret.provider.did = ret.arg.did
    /\ anchors[WebDID] # NoEntry
    /\ \E d \in ProviderDIDs : anchors[d] # NoEntry

\* C27, as stated: no step of a GetAnchor(d) puts another anchor into an
\* entry that holds an anchor stored by AddAnchor.
C27_AddedAnchorKept ==
    [][\A p \in Callers, d \in AllDIDs :
          (op[p] = "GetAnchor" /\ pc'[p] # pc[p]
              /\ anchors[d] # NoEntry /\ anchors[d].anchor.by = 0)
          => anchors'[d].anchor = anchors[d].anchor]_vars

\* C27, amended: a GetAnchor(d) that finds an entry changes its expiry only,
\* and the lookup of a GetAnchor that finds none changes nothing; the insert
\* of a GetAnchor that found none puts the anchor it resolved into the entry
\* of d, whether an AddAnchor has stored one there in the meantime or not.
C27_LookupKeepsAnchor ==
    [][\A p \in Callers :
          /\ Leaves(p, "GetAnchor") =>
                \A d \in AllDIDs :
                    /\ anchors'[d].anchor = anchors[d].anchor
                    /\ d # arg[p].did => anchors'[d] = anchors[d]
          /\ Resolves(p) => anchors' = anchors
          /\ Inserts(p) =>
                /\ nres[p] = 1
                /\ anchors'[loc[p].did].anchor = loc[p]
                /\ \A d \in AllDIDs \ {loc[p].did} : anchors'[d] = anchors[d]
      ]_vars

\* a GetAnchor that missed is about to insert over the anchor an AddAnchor
\* has stored since
C27_Witness ==
    \E p \in Callers :
        /\ pc[p] = "cs2"
        /\ anchors[loc[p].did] # NoEntry
        /\ anchors[loc[p].did].anchor.by = 0

(***************************************************************************)
(* The Trust Context: progress                                             *)
(***************************************************************************)

\* C28: deadlock freedom.  Whoever holds the mutex is in a critical section
\* that ends with its Unlock without waiting for anyone, Start and Stop
\* too; so under fair scheduling every call of every operation returns, its
\* mutex released, and every loop that waits for its sweep or is in it comes
\* back to its select, its mutex released, whatever loops run or are
\* cancelled.
C28_DeadlockFree ==
    /\ [](\A p \in Callers : mx = p <=> pc[p] \in {"cs", "cs2"})
    /\ [](\A l \in LoopIds : mx = 0 - l <=> loops[l].pc = "gc_cs")
    /\ \A p \in Callers : (pc[p] # "idle") ~> (pc[p] = "idle" /\ mx # p)
    /\ \A l \in 1..MaxStarts :
          (l \in LoopIds /\ loops[l].pc \in {"gc_lock", "gc_cs"})
             ~> (l \in LoopIds /\ loops[l].pc = "select" /\ mx # 0 - l)

\* both callers wait for the insert of their GetAnchor and a cancelled loop
\* waits for its sweep while the other loop sweeps
C28_Witness ==
    /\ \A p \in Callers : pc[p] = "lock2"
    /\ mx < 0
    /\ \E l \in LoopIds : loops[l].cancelled /\ loops[l].pc = "gc_lock"

(***************************************************************************)
(* The Trust Context: the loops after Stop, and the interval of Start      *)
(***************************************************************************)

\* C29, as stated: once Stop has returned and no Start has followed, no
\* sweep removes an entry, and the anchors map changes only through
\* AddAnchor and GetAnchor.
C29_NoSweepAfterStop ==
    [][stop = 0 =>
          /\ \A l \in LoopIds : Sweeps(l) => anchors' = anchors
          /\ anchors' # anchors => \E p \in Callers, d \in AllDIDs : Touches(p, d)
      ]_vars

\* C29, amended: a loop that Stop has cancelled can still sweep, as long as
\* it has not returned: the sweep it was on its way to, and the sweeps of
\* the ticks its select takes before it takes Done.  Such a sweep removes
\* expired entries only.  A loop that has returned takes no step any more,
\* and the anchors map changes only through AddAnchor, GetAnchor and the
\* sweep of a loop that has not returned.
C29_SweepsUntilReturned ==
    [][/\ \A l \in LoopIds :
            /\ loops[l].pc = "returned" => loops'[l] = loops[l]
            /\ loops[l].cancelled => loops'[l].cancelled
            /\ Sweeps(l) =>
                  \A d \in AllDIDs :
                      anchors'[d] # anchors[d] =>
                          /\ anchors'[d] = NoEntry
                          /\ anchors[d].expire < now
       /\ anchors' # anchors =>
             \/ \E p \in Callers, d \in AllDIDs : Touches(p, d)
             \/ \E l \in LoopIds : Sweeps(l) /\ loops[l].pc # "returned"
      ]_vars

\* a loop that Stop had cancelled has swept an entry away after Stop
\* returned
C29_Witness ==
    /\ ret.op = "gcAnchorEntries"
    /\ ret.dids # {}
    /\ stop = 0
    /\ loops[0 - ret.caller].cancelled

\* C30: Start is safe for every interval.  No loop that Start has spawned,
\* with a negative, a zero or a positive interval, panics.
C30_StartSafeForEveryInterval ==
    \A l \in LoopIds : loops[l].pc # "panic"

=============================================================================
